---- MODULE Spec2Model ----
(***************************************************************************)
(* Zuper jobs validation dashboard: the sync-and-validate pipeline.        *)
(*                                                                         *)
(*   SpecNotify  the notifier called on its own (slack_notifier.py)        *)
(*   SpecFetch   the paginated list fetch (ZuperSync.fetch_jobs_from_api), *)
(*               SpecFetchFair with the loop kept running                  *)
(*   SpecUpdated the differential fetch (ZuperSync.fetch_updated_jobs_only)*)
(*   SpecEnrich  the worker pool of ZuperSync.enrich_jobs_with_assets and  *)
(*               the detail fetch each worker runs (fetch_job_details),    *)
(*               on lists of pairwise different job_uids                   *)
(*   SpecEnrichAny  the same on lists that repeat or lack a job_uid        *)
(*   SpecDetail  one call of fetch_job_details, request by request         *)
(*   Spec        sync runs of sync_jobs_to_database against the store,     *)
(*               with the notifier called from inside the run              *)
(*   SpecRuns    sync runs over lists that hold entries the run cannot     *)
(*               read, and the connection such a run leaves open           *)
(*   SpecBatches the coordinator sync_jobs_in_batches (streamlit_sync.py)  *)
(*   SpecValidate  validate_job on its own                                 *)
(*   SpecSerial  normalize_serial on its own                               *)
(*   SpecDiff    full and differential syncs against a changing source     *)
(*   SpecStore   sync runs between which the records are edited at the API *)
(***************************************************************************)
EXTENDS Integers, Sequences, FiniteSets, TLC

VARIABLES
    \* ---- the SQLite database file (committed content) and the notifier ----
    db,             \* committed content of jobs_validation.db
    calls,          \* history: the direct calls of send_missing_netsuite_notification
    \* ---- fetch_jobs_from_api ----
    server_count,   \* number of jobs the server holds for the list endpoint
    page,           \* fetch_jobs_from_api: page
    retry_count,    \* fetch_jobs_from_api: retry_count
    jobs,           \* fetch_jobs_from_api: jobs (accumulated list)
    fetch_pc,       \* "running" | "returned" | "raised" | "off"
    fetch_requests, \* history: number of HTTP requests the list fetch has issued
    \* ---- fetch_updated_jobs_only ----
    upd_last_sync,  \* what SELECT MAX(synced_at) FROM jobs gives: a string, None, or DbError
    upd_all_jobs,   \* what fetch_jobs_from_api returns to fetch_updated_jobs_only
    upd_result,     \* the list fetch_updated_jobs_only returns
    upd_pc,         \* "start" | "returned" | "raised" | "off"
    \* ---- enrich_jobs_with_assets ----
    e_jobs,         \* enrich_jobs_with_assets: jobs (the input list)
    futures,        \* one future per input position: state of its fetch_full_details task
    enriched_jobs,  \* enrich_jobs_with_assets: enriched_jobs
    collected,      \* futures the as_completed loop has handled
    out_of_order,   \* history: a future was handled after one of a later position
    e_pc,           \* "running" | "returned" | "off"
    \* ---- sync_jobs_to_database ----
    source,         \* the job records the Zuper API holds, by job_uid
    allowed_categories, \* ALLOWED_JOB_CATEGORIES of the deployed code
    now,            \* datetime.now(), in hours
    tx,             \* the database as the sync run's connection sees it (NoTx: closed)
    sync_pc,        \* "idle" | "run" | "leaked" (a dead run's connection holds the lock)
    run,            \* locals of the sync run in progress
    nruns,          \* history: number of sync runs started
    dispatched,     \* history: successful webhook POSTs made from sync runs, by job_uid
    last_run,       \* history: input and outcome of the last completed run
    prev_run,       \* history: the run before it, when the last run repeated it at once
    batch_run,      \* locals of sync_jobs_in_batches, and the outcome of each batch
    \* ---- validate_job, normalize_serial ----
    fn_args,        \* the arguments of the call (with the locals of fetch_job_details)
    fn_result       \* [returned |-> the value returned] (NoResult before the return)

notifVars == <<db, calls>>
fetchVars == <<server_count, page, retry_count, jobs, fetch_pc, fetch_requests>>
updVars == <<upd_last_sync, upd_all_jobs, upd_result, upd_pc>>
enrichVars == <<e_jobs, futures, enriched_jobs, collected, out_of_order, e_pc>>
fnVars == <<fn_args, fn_result>>
syncVars == <<source, allowed_categories, now, tx, sync_pc, run, nruns, dispatched,
              last_run, prev_run, batch_run>>
vars == <<db, calls, server_count, page, retry_count, jobs, fetch_pc, fetch_requests,
          upd_last_sync, upd_all_jobs, upd_result, upd_pc,
          e_jobs, futures, enriched_jobs, collected, out_of_order, e_pc,
          source, allowed_categories, now, tx, sync_pc, run, nruns, dispatched,
          last_run, prev_run, batch_run, fn_args, fn_result>>

----------------------------------------------------------------------------
(* Bounds *)

MaxCalls == 3           \* direct notifier calls in one behaviour
MaxPages == 2           \* pages the server's job list can span
MaxStrLen == 2          \* length of a timestamp string
MaxFetched == 2         \* jobs in the list handed to the differential filter
MaxBatch == 2           \* jobs in the list handed to enrich_jobs_with_assets
MaxWorkers == 2         \* width of the worker pool (max_workers)
MaxRuns == 2            \* sync runs in one behaviour
MaxTicks == 1           \* times the clock advances in one behaviour
MaxItems == 2           \* line items, and checklist parts, handed to validate_job
MaxDigits == 10         \* digits (and dashes) in the middle of a serial number
MaxUpdates == 2         \* changes of records at the API in one behaviour
MaxEdits == 1           \* categories taken off the allowlist in one behaviour

----------------------------------------------------------------------------
(* Values *)

JobUids == {"j1", "j2"}

\* Strings are sequences of characters (the characters are 1 and 2).  None
\* where a string is expected, and the outcome of a query that raised, are
\* sequences that are not strings.
None == <<0>>
DbError == <<0, 0>>

\* sync_jobs_to_db.py: ALLOWED_JOB_CATEGORIES.
ALLOWED_JOB_CATEGORIES ==
    {"LaserWeeder Service Call", "WM Service - In Field", "WM Repair - In Shop"}

\* No row of jobs for a job_uid; a closed connection; no run; no record at the API.
NoRow == [absent |-> TRUE]
NoTx == [closed |-> TRUE]
NoRun == [none |-> TRUE]
NoRecord == [missing |-> TRUE]
\* No call of the function, or no result of it yet.
NoResult == [pending |-> TRUE]
\* sync_jobs_in_batches is not running.
NoBatchRun == [off |-> TRUE]

----------------------------------------------------------------------------
(* slack_notifier.py: notification_log and the notifier                    *)

\* One row of notification_log.  UNIQUE(job_uid, notification_type, channel).
NotificationRow(job_uid, success) ==
    [job_uid |-> job_uid, notification_type |-> "missing_netsuite_id",
     channel |-> "slack", success |-> success]

SameNotificationKey(r, s) ==
    /\ r.job_uid = s.job_uid
    /\ r.notification_type = s.notification_type
    /\ r.channel = s.channel

\* init_notification_tracking: CREATE TABLE IF NOT EXISTS on a connection of
\* its own.  Creating the table is a write: with another connection holding
\* the write lock it ends in OperationalError("database is locked"), which
\* this function does not catch.  With the table present it only reads.
init_notification_tracking(d, locked) ==
    IF d.notifTable THEN [db |-> d, raised |-> FALSE]
    ELSE IF locked THEN [db |-> d, raised |-> TRUE]
    ELSE [db |-> [d EXCEPT !.notifTable = TRUE], raised |-> FALSE]

\* A dedup check that never finds a row.
was_notification_sent_NoCheck(d, job_uid) == FALSE

\* was_notification_sent: SELECT 1 ... WHERE job_uid = ? AND
\* notification_type = ? AND success = 1; sqlite3.Error (no such table) -> False.
was_notification_sent(d, job_uid) ==
    /\ d.notifTable
    /\ \E i \in 1..Len(d.notification_log) :
          /\ d.notification_log[i].job_uid = job_uid
          /\ d.notification_log[i].notification_type = "missing_netsuite_id"
          /\ d.notification_log[i].success

\* INSERT OR REPLACE: rows that collide on the UNIQUE key are deleted, the new
\* row is inserted.
InsertOrReplace(log, row) ==
    SelectSeq(log, LAMBDA r : ~SameNotificationKey(r, row)) \o <<row>>

\* A record step that keeps successful attempts only.
record_notification_SuccessOnly(d, locked, job_uid, success) ==
    IF locked \/ ~d.notifTable \/ ~success THEN d
    ELSE [d EXCEPT !.notification_log =
              InsertOrReplace(@, NotificationRow(job_uid, success))]

\* record_notification: INSERT OR REPLACE on a connection of its own, then
\* commit.  sqlite3.Error (database is locked, no such table) is caught and
\* printed: nothing is written.
record_notification(d, locked, job_uid, success) ==
    IF locked \/ ~d.notifTable THEN d
    ELSE [d EXCEPT !.notification_log =
              InsertOrReplace(@, NotificationRow(job_uid, success))]

\* send_missing_netsuite_notification.  d is the committed database, locked
\* says that another connection holds the write lock, webhook_url says that a
\* URL is configured, ok is the answer the webhook gives to a POST.
\* Result: the database afterwards, whether a POST was made, the value
\* returned, and whether the call raised instead of returning.
send_missing_netsuite_notification(d, locked, webhook_url, job_uid, force, ok) ==
    IF ~webhook_url
    THEN [db |-> d, posted |-> FALSE, result |-> FALSE, raised |-> FALSE]
    ELSE LET t == init_notification_tracking(d, locked) IN
         IF t.raised
         THEN [db |-> d, posted |-> FALSE, result |-> FALSE, raised |-> TRUE]
         ELSE IF ~force /\ was_notification_sent(t.db, job_uid)
         THEN [db |-> t.db, posted |-> FALSE, result |-> FALSE, raised |-> FALSE]
         ELSE [db |-> record_notification(t.db, locked, job_uid, ok),
               posted |-> TRUE, result |-> ok, raised |-> FALSE]

\* The database of a fresh installation, before any sync and any notification.
EmptyDb ==
    [notifTable |-> FALSE, notification_log |-> <<>>,
     jobs |-> [j \in JobUids |-> NoRow],
     job_line_items |-> [j \in JobUids |-> <<>>],
     job_checklist_parts |-> [j \in JobUids |-> <<>>],
     job_custom_fields |-> [j \in JobUids |-> <<>>],
     validation_flags |-> [j \in JobUids |-> <<>>],
     organizations |-> {},
     sync_log |-> <<>>]

\* A direct call of the notifier (no sync run in progress, nobody holds the
\* write lock).
Notify(job_uid, webhook_url, force, ok) ==
    /\ Len(calls) < MaxCalls
    /\ LET r == send_missing_netsuite_notification(db, FALSE, webhook_url,
                                                   job_uid, force, ok) IN
         /\ db' = r.db
         /\ calls' = Append(calls, [job_uid |-> job_uid, webhook_url |-> webhook_url,
                                    force |-> force, ok |-> ok,
                                    posted |-> r.posted, result |-> r.result])
    /\ UNCHANGED <<fetchVars, updVars, enrichVars, fnVars>>

----------------------------------------------------------------------------
(* streamlit_sync.py: ZuperSync.fetch_jobs_from_api                        *)

page_size == 100
max_retries == 3

Min(a, b) == IF a <= b THEN a ELSE b

\* The list endpoint: the server holds jobs 1..server_count and serves them in
\* pages of `count` records; every answer carries total_pages.
ServerJobs == [i \in 1..server_count |-> i]
ServerTotalPages == (server_count + page_size - 1) \div page_size
ServerPage(p) ==
    SubSeq(ServerJobs, (p - 1) * page_size + 1, Min(p * page_size, server_count))

\* What one GET of a page can end in.
ListResponses ==
    {"success", "timeout", "http_error", "network_error", "bad_json", "non_success"}

\* The loop body with a timeout handler that always tries again.
FetchPage_NoGiveUp(resp) ==
    /\ fetch_pc = "running"
    /\ fetch_requests' = fetch_requests + 1
    /\ UNCHANGED <<server_count, notifVars, updVars, enrichVars, syncVars, fnVars>>
    /\ CASE resp = "timeout" ->
              \* except requests.exceptions.Timeout
              /\ retry_count' = retry_count + 1
              /\ fetch_pc' = "running"
              /\ UNCHANGED <<page, jobs>>
         [] resp \in {"http_error", "network_error"} ->
              \* except HTTPError / RequestException: raise Exception(error_msg)
              /\ fetch_pc' = "raised"
              /\ UNCHANGED <<page, jobs, retry_count>>
         [] resp = "bad_json" ->
              \* response.json() raises JSONDecodeError: raise Exception(error_msg)
              /\ retry_count' = 0
              /\ fetch_pc' = "raised"
              /\ UNCHANGED <<page, jobs>>
         [] resp = "non_success" ->
              \* data.get('type') != 'success': progress message, then break
              /\ retry_count' = 0
              /\ fetch_pc' = "returned"
              /\ UNCHANGED <<page, jobs>>
         [] resp = "success" ->
              LET page_jobs == ServerPage(page)
                  total_pages == ServerTotalPages IN
              /\ retry_count' = 0
              /\ IF page_jobs = <<>>
                 THEN /\ fetch_pc' = "returned"
                      /\ UNCHANGED <<page, jobs>>
                 ELSE /\ jobs' = jobs \o page_jobs
                      /\ IF page >= total_pages \/ Len(page_jobs) < page_size
                         THEN /\ fetch_pc' = "returned"
                              /\ UNCHANGED page
                         ELSE /\ fetch_pc' = "running"
                              /\ page' = page + 1

\* One iteration of the `while True` loop of fetch_jobs_from_api: one GET of
\* the current page and everything the loop body does with its outcome.
FetchPage(resp) ==
    /\ fetch_pc = "running"
    /\ fetch_requests' = fetch_requests + 1
    /\ UNCHANGED <<server_count, notifVars, updVars, enrichVars, syncVars, fnVars>>
    /\ CASE resp = "timeout" ->
              \* except requests.exceptions.Timeout
              /\ retry_count' = retry_count + 1
              /\ fetch_pc' = IF retry_count + 1 < max_retries THEN "running" ELSE "raised"
              /\ UNCHANGED <<page, jobs>>
         [] resp \in {"http_error", "network_error"} ->
              \* except HTTPError / RequestException: raise Exception(error_msg)
              /\ fetch_pc' = "raised"
              /\ UNCHANGED <<page, jobs, retry_count>>
         [] resp = "bad_json" ->
              \* response.json() raises JSONDecodeError: raise Exception(error_msg)
              /\ retry_count' = 0
              /\ fetch_pc' = "raised"
              /\ UNCHANGED <<page, jobs>>
         [] resp = "non_success" ->
              \* data.get('type') != 'success': progress message, then break
              /\ retry_count' = 0
              /\ fetch_pc' = "returned"
              /\ UNCHANGED <<page, jobs>>
         [] resp = "success" ->
              LET page_jobs == ServerPage(page)
                  total_pages == ServerTotalPages IN
              /\ retry_count' = 0
              /\ IF page_jobs = <<>>
                 THEN /\ fetch_pc' = "returned"
                      /\ UNCHANGED <<page, jobs>>
                 ELSE /\ jobs' = jobs \o page_jobs
                      /\ IF page >= total_pages \/ Len(page_jobs) < page_size
                         THEN /\ fetch_pc' = "returned"
                              /\ UNCHANGED page
                         ELSE /\ fetch_pc' = "running"
                              /\ page' = page + 1

FetchIdle ==
    /\ server_count = 0 /\ page = 1 /\ retry_count = 0 /\ jobs = <<>>
    /\ fetch_pc = "off" /\ fetch_requests = 0

NotifyIdle ==
    /\ db = EmptyDb /\ calls = <<>>

UpdatedIdle ==
    /\ upd_last_sync = None /\ upd_all_jobs = <<>> /\ upd_result = <<>> /\ upd_pc = "off"

EnrichIdle ==
    /\ e_jobs = <<>> /\ futures = <<>> /\ enriched_jobs = <<>> /\ collected = {}
    /\ out_of_order = FALSE /\ e_pc = "off"

FnIdle == fn_args = NoResult /\ fn_result = NoResult

SyncIdle ==
    /\ source = [j \in JobUids |-> NoRecord]
    /\ allowed_categories = ALLOWED_JOB_CATEGORIES
    /\ now = 0 /\ tx = NoTx /\ sync_pc = "idle" /\ run = NoRun /\ nruns = 0
    /\ dispatched = [j \in JobUids |-> 0]
    /\ last_run = NoRun /\ prev_run = NoRun
    /\ batch_run = NoBatchRun

\* fetch_jobs_from_api is entered: jobs = [], page = 1, retry_count = 0.
InitFetch ==
    /\ server_count \in 0..(MaxPages * page_size)
    /\ page = 1 /\ retry_count = 0 /\ jobs = <<>>
    /\ fetch_pc = "running" /\ fetch_requests = 0
    /\ NotifyIdle /\ UpdatedIdle /\ EnrichIdle /\ SyncIdle /\ FnIdle

NextFetch == \E resp \in ListResponses : FetchPage(resp)

SpecFetch == InitFetch /\ [][NextFetch]_vars

\* The call runs on a thread that keeps running and every GET ends (it has a
\* timeout of 30 seconds): an iteration that can be taken is taken.
SpecFetchFair == SpecFetch /\ WF_vars(NextFetch)

InitNotify == NotifyIdle /\ FetchIdle /\ UpdatedIdle /\ EnrichIdle /\ SyncIdle /\ FnIdle

NextNotify ==
    \E j \in JobUids, u \in BOOLEAN, f \in BOOLEAN, ok \in BOOLEAN :
        Notify(j, u, f, ok) /\ UNCHANGED syncVars

SpecNotify == InitNotify /\ [][NextNotify]_vars

----------------------------------------------------------------------------
(* streamlit_sync.py: ZuperSync.fetch_updated_jobs_only                    *)

Chars == {1, 2}
Strings == UNION {[1..n -> Chars] : n \in 0..MaxStrLen}
NonEmptyStrings == Strings \ {<<>>}

\* Python's < on str: lexicographic, a proper prefix is smaller.
RECURSIVE StrLess(_, _)
StrLess(a, b) ==
    IF a = <<>> THEN b /= <<>>
    ELSE IF b = <<>> THEN FALSE
    ELSE IF Head(a) < Head(b) THEN TRUE
    ELSE IF Head(a) > Head(b) THEN FALSE
    ELSE StrLess(Tail(a), Tail(b))

\* Python truthiness of a value that is a str or None.
Truthy(v) == v /= None /\ v /= <<>>

\* job.get('updated_at') or job.get('created_at')
JobUpdated(job) == IF Truthy(job.updated_at) THEN job.updated_at ELSE job.created_at

\* The filter loop with the fallback to created_at left out.
RECURSIVE FilterUpdated_NoFallback(_, _)
FilterUpdated_NoFallback(all_jobs, last_sync) ==
    IF all_jobs = <<>> THEN <<>>
    ELSE LET job == Head(all_jobs)
             job_updated == job.updated_at
             rest == FilterUpdated_NoFallback(Tail(all_jobs), last_sync) IN
         IF Truthy(job_updated) /\ StrLess(last_sync, job_updated)
         THEN <<job>> \o rest ELSE rest

\* for job in all_jobs: if job_updated and job_updated > last_sync: append
RECURSIVE FilterUpdated(_, _)
FilterUpdated(all_jobs, last_sync) ==
    IF all_jobs = <<>> THEN <<>>
    ELSE LET job == Head(all_jobs)
             job_updated == JobUpdated(job)
             rest == FilterUpdated(Tail(all_jobs), last_sync) IN
         IF Truthy(job_updated) /\ StrLess(last_sync, job_updated)
         THEN <<job>> \o rest ELSE rest

\* The records of the list endpoint, as far as the filter reads them:
\* updated_at is any string or None, created_at a one-character string or None.
ListRecords ==
    [updated_at : Strings \cup {None}, created_at : [1..1 -> Chars] \cup {None}]

\* fetch_updated_jobs_only, whole call.  fetched says whether
\* fetch_jobs_from_api returned (its exception is not caught here).
FetchUpdated(fetched) ==
    /\ upd_pc = "start"
    /\ LET last_sync == IF upd_last_sync = DbError \/ ~Truthy(upd_last_sync)
                        THEN None ELSE upd_last_sync IN
       IF ~fetched
       THEN /\ upd_pc' = "raised"
            /\ UNCHANGED upd_result
       ELSE /\ upd_pc' = "returned"
            /\ upd_result' = IF last_sync = None THEN upd_all_jobs
                             ELSE FilterUpdated(upd_all_jobs, last_sync)
    /\ UNCHANGED <<upd_last_sync, upd_all_jobs, notifVars, fetchVars, enrichVars, syncVars, fnVars>>

\* synced_at is always written as datetime.now().isoformat(), so
\* MAX(synced_at) is NULL (no rows) or a non-empty string; DbError stands for
\* a database that cannot be read.
InitUpdated ==
    /\ upd_last_sync \in NonEmptyStrings \cup {None, DbError}
    /\ upd_all_jobs \in UNION {[1..n -> ListRecords] : n \in 0..MaxFetched}
    /\ upd_result = <<>>
    /\ upd_pc = "start"
    /\ NotifyIdle /\ FetchIdle /\ EnrichIdle /\ SyncIdle /\ FnIdle

NextUpdated == \E fetched \in BOOLEAN : FetchUpdated(fetched)

SpecUpdated == InitUpdated /\ [][NextUpdated]_vars

----------------------------------------------------------------------------
(* streamlit_sync.py: ZuperSync.fetch_job_details                          *)

detail_max_retries == 3

\* What one GET of /api/jobs/{job_uid} can end in.
DetailResponses ==
    {"success",           \* 200, type success, data = the full record
     "empty_body",        \* 200, type success, data empty or missing
     "non_success",       \* 200, type is not success
     "bad_json",          \* 200, body is not JSON
     "timeout",           \* requests.exceptions.Timeout
     "network_error",     \* another requests.exceptions.RequestException
     "http_5xx", "http_4xx",
     "http_429",          \* 429 with a Retry-After that int() accepts (or none)
     "http_429_date"}     \* 429 with a Retry-After that is an HTTP date

\* The body of the try block for one attempt: it returns, goes on with the
\* next attempt (continue), or raises an exception of some class.
DetailTry(resp) ==
    CASE resp = "success"       -> [kind |-> "return", data |-> "detail", error |-> "None"]
      [] resp = "empty_body"    -> [kind |-> "return", data |-> "empty", error |-> "None"]
      [] resp = "non_success"   -> [kind |-> "return", data |-> "None",
                                    error |-> "API returned non-success"]
      [] resp = "http_429"      -> [kind |-> "continue", data |-> "None", error |-> "None"]
      [] resp = "http_429_date" -> [kind |-> "exception", data |-> "None", error |-> "ValueError"]
      [] resp = "timeout"       -> [kind |-> "exception", data |-> "None", error |-> "Timeout"]
      [] resp \in {"http_5xx", "http_4xx"}
                                -> [kind |-> "exception", data |-> "None", error |-> "HTTPError"]
      [] resp \in {"bad_json", "network_error"}
                                -> [kind |-> "exception", data |-> "None",
                                    error |-> "RequestException"]

\* The except clauses without the final `except Exception`.
DetailAttempt_NoCatchAll(attempt, resp) ==
    LET t == DetailTry(resp) IN
    IF t.kind /= "exception" THEN t
    ELSE CASE t.error = "Timeout" ->
                IF attempt < detail_max_retries - 1
                THEN [kind |-> "continue", data |-> "None", error |-> "None"]
                ELSE [kind |-> "return", data |-> "None", error |-> "Timeout after 3 retries"]
           [] t.error = "HTTPError" ->
                IF resp = "http_5xx" /\ attempt < detail_max_retries - 1
                THEN [kind |-> "continue", data |-> "None", error |-> "None"]
                ELSE [kind |-> "return", data |-> "None", error |-> "HTTP error"]
           [] t.error = "RequestException" ->
                [kind |-> "return", data |-> "None", error |-> "Request failed"]
           [] OTHER ->
                [kind |-> "raise", data |-> "None", error |-> t.error]

\* One pass of `for attempt in range(max_retries)`: the try block and the
\* except clause that catches what it raised.
DetailAttempt(attempt, resp) ==
    LET t == DetailTry(resp) IN
    IF t.kind /= "exception" THEN t
    ELSE CASE t.error = "Timeout" ->
                IF attempt < detail_max_retries - 1
                THEN [kind |-> "continue", data |-> "None", error |-> "None"]
                ELSE [kind |-> "return", data |-> "None", error |-> "Timeout after 3 retries"]
           [] t.error = "HTTPError" ->
                IF resp = "http_5xx" /\ attempt < detail_max_retries - 1
                THEN [kind |-> "continue", data |-> "None", error |-> "None"]
                ELSE [kind |-> "return", data |-> "None", error |-> "HTTP error"]
           [] t.error = "RequestException" ->
                [kind |-> "return", data |-> "None", error |-> "Request failed"]
           [] OTHER ->
                [kind |-> "return", data |-> "None", error |-> "Unexpected error"]

----------------------------------------------------------------------------
(* streamlit_sync.py: ZuperSync.enrich_jobs_with_assets                    *)

EnrichUids == 1..MaxBatch

\* A record of the list endpoint (it carries no assets), the record the detail
\* endpoint returns for a job, and an empty slot of enriched_jobs.
ListRecord(uid) == [job_uid |-> uid, source |-> "list", assets |-> "absent"]
DetailRecord(uid) == [job_uid |-> uid, source |-> "detail", assets |-> "present"]
NoJob == [job_uid |-> 0, source |-> "None", assets |-> "None"]

\* The fallback without the assets placeholder.
Fallback_NoAssets(job) == job

\* enriched_jobs[idx] = jobs[idx]; enriched_jobs[idx]['assets'] = []
Fallback(job) == [job EXCEPT !.assets = "empty"]

\* job_uid_to_index = {job.get('job_uid'): idx for idx, job in enumerate(jobs)}:
\* a later entry with the same job_uid overwrites an earlier one.
JobUidToIndex(uid) ==
    LET S == {k \in 1..Len(e_jobs) : e_jobs[k].job_uid = uid} IN
    CHOOSE k \in S : \A m \in S : m <= k

NewFuture ==
    [st |-> "queued", attempt |-> 0, data |-> "None", error |-> "None",
     exception |-> "None", got_success |-> FALSE]

Running == {i \in 1..Len(futures) : futures[i].st = "running"}
Queued == {i \in 1..Len(futures) : futures[i].st = "queued"}

\* A free pool thread takes the next task from the executor's queue.
WorkerStart(i) ==
    /\ e_pc = "running"
    /\ i \in Queued /\ \A k \in Queued : i <= k
    /\ Cardinality(Running) < MaxWorkers
    /\ futures' = [futures EXCEPT ![i].st = "running"]
    /\ UNCHANGED <<e_jobs, enriched_jobs, collected, out_of_order, e_pc,
                   notifVars, fetchVars, updVars, syncVars, fnVars>>

\* The task of position i makes one HTTP attempt inside fetch_job_details.
\* When fetch_job_details returns, fetch_full_details turns its pair into
\* (job_uid, data, error) and the future is done.
WorkerAttempt(i, resp) ==
    /\ e_pc = "running"
    /\ i \in Running
    /\ LET f == futures[i]
           a == DetailAttempt(f.attempt, resp)
           got == f.got_success \/ resp \in {"success", "empty_body"} IN
       futures' = [futures EXCEPT ![i] =
          CASE a.kind = "return" ->
                 \* fetch_full_details: error / job_details / "Empty response"
                 [f EXCEPT !.st = "done", !.attempt = f.attempt + 1, !.got_success = got,
                           !.data = IF a.error = "None" /\ a.data = "detail"
                                    THEN "detail" ELSE "None",
                           !.error = IF a.error /= "None" THEN a.error
                                     ELSE IF a.data = "detail" THEN "None"
                                     ELSE "Empty response"]
            [] a.kind = "raise" ->
                 [f EXCEPT !.st = "done", !.attempt = f.attempt + 1,
                           !.exception = a.error]
            [] a.kind = "continue" ->
                 IF f.attempt + 1 < detail_max_retries
                 THEN [f EXCEPT !.attempt = f.attempt + 1]
                 ELSE \* the for loop is exhausted: return None, "Max retries exceeded"
                      [f EXCEPT !.st = "done", !.attempt = f.attempt + 1,
                                !.error = "Max retries exceeded"]]
    /\ UNCHANGED <<e_jobs, enriched_jobs, collected, out_of_order, e_pc,
                   notifVars, fetchVars, updVars, syncVars, fnVars>>

\* The task of position i dies of an exception that does not come from the
\* HTTP exchange (the future then holds the exception).
WorkerFault(i) ==
    /\ e_pc = "running"
    /\ i \in Running
    /\ futures' = [futures EXCEPT ![i].st = "done", ![i].exception = "WorkerError"]
    /\ UNCHANGED <<e_jobs, enriched_jobs, collected, out_of_order, e_pc,
                   notifVars, fetchVars, updVars, syncVars, fnVars>>

\* The loop body that stores results in completion order instead of by slot.
Collect_CompletionOrder(i) ==
    /\ e_pc = "running"
    /\ i \in 1..Len(futures) /\ futures[i].st = "done" /\ i \notin collected
    /\ LET f == futures[i]
           idx == Cardinality(collected) + 1 IN
       enriched_jobs' = [enriched_jobs EXCEPT ![idx] =
           IF f.exception /= "None" \/ f.error /= "None"
           THEN Fallback(e_jobs[i])
           ELSE DetailRecord(e_jobs[i].job_uid)]
    /\ collected' = collected \cup {i}
    /\ out_of_order' = (out_of_order \/ \E k \in collected : k > i)
    /\ UNCHANGED <<e_jobs, futures, e_pc, notifVars, fetchVars, updVars, syncVars, fnVars>>

\* One pass of `for future in as_completed(future_to_uid)`: a finished future
\* that has not been handled yet is handled.
Collect(i) ==
    /\ e_pc = "running"
    /\ i \in 1..Len(futures) /\ futures[i].st = "done" /\ i \notin collected
    /\ LET f == futures[i]
           job_uid == e_jobs[i].job_uid          \* future_to_uid[future]
           idx == JobUidToIndex(job_uid) IN
       enriched_jobs' = [enriched_jobs EXCEPT ![idx] =
           IF f.exception /= "None" \/ f.error /= "None"
           THEN Fallback(e_jobs[idx])            \* future.result() raised, or error
           ELSE DetailRecord(job_uid)]           \* full_job_data
    /\ collected' = collected \cup {i}
    /\ out_of_order' = (out_of_order \/ \E k \in collected : k > i)
    /\ UNCHANGED <<e_jobs, futures, e_pc, notifVars, fetchVars, updVars, syncVars, fnVars>>

\* as_completed is exhausted, the executor is shut down: return enriched_jobs.
EnrichReturn ==
    /\ e_pc = "running"
    /\ collected = 1..Len(futures)
    /\ e_pc' = "returned"
    /\ UNCHANGED <<e_jobs, futures, enriched_jobs, collected, out_of_order,
                   notifVars, fetchVars, updVars, syncVars, fnVars>>

\* Input lists whose entries have pairwise different job_uids.
DistinctInputs ==
    {js \in UNION {[1..n -> EnrichUids] : n \in 1..MaxBatch} :
        \A a, b \in 1..Len(js) : a /= b => js[a] /= js[b]}

\* enrich_jobs_with_assets is entered with a non-empty list: enriched_jobs is
\* [None] * total and one task per job is submitted to the pool.
InitEnrich ==
    /\ \E js \in DistinctInputs :
          /\ e_jobs = [k \in 1..Len(js) |-> ListRecord(js[k])]
          /\ futures = [k \in 1..Len(js) |-> NewFuture]
          /\ enriched_jobs = [k \in 1..Len(js) |-> NoJob]
    /\ collected = {}
    /\ out_of_order = FALSE
    /\ e_pc = "running"
    /\ NotifyIdle /\ FetchIdle /\ UpdatedIdle /\ SyncIdle /\ FnIdle

NextEnrich ==
    \/ \E i \in 1..MaxBatch : WorkerStart(i)
    \/ \E i \in 1..MaxBatch, resp \in DetailResponses : WorkerAttempt(i, resp)
    \/ \E i \in 1..MaxBatch : WorkerFault(i)
    \/ \E i \in 1..MaxBatch : Collect(i)
    \/ EnrichReturn

SpecEnrich == InitEnrich /\ [][NextEnrich]_vars

----------------------------------------------------------------------------
(* enrich_jobs_with_assets on lists of any shape (SpecEnrichAny)           *)

\* An entry without a job_uid: job.get('job_uid') is None, which is a key of
\* job_uid_to_index and the argument of its detail fetch like any other.
NoUid == 0

\* Input lists in which a job_uid may repeat and entries may lack a job_uid
\* (lists of pairwise different job_uids are the inputs of SpecEnrich).
AnyInputs == UNION {[1..n -> {1, NoUid}] : n \in 1..MaxBatch}

InitEnrichAny ==
    /\ \E js \in AnyInputs :
          /\ e_jobs = [k \in 1..Len(js) |-> ListRecord(js[k])]
          /\ futures = [k \in 1..Len(js) |-> NewFuture]
          /\ enriched_jobs = [k \in 1..Len(js) |-> NoJob]
    /\ collected = {}
    /\ out_of_order = FALSE
    /\ e_pc = "running"
    /\ NotifyIdle /\ FetchIdle /\ UpdatedIdle /\ SyncIdle /\ FnIdle

SpecEnrichAny == InitEnrichAny /\ [][NextEnrich]_vars

----------------------------------------------------------------------------
(* sync_jobs_to_db.py: the extractors and validate_job                     *)

recent_hours == 48
commit_every == 100

\* Python's None where the code handles a text value.
NoneStr == "None"

\* Category names seen at the API.  'reaper pm' and 'slayer pm' are terms of
\* SKIP_VALIDATION_CATEGORIES; of the category names used here, lower-cased,
\* "Reaper PM" and "SLAYER PM 2024" contain one.
JobCategories == ALLOWED_JOB_CATEGORIES \cup {"Reaper PM"}
ContainsSkipTerm(category_name) == category_name \in {"Reaper PM", "SLAYER PM 2024"}

\* Texts of a line item.  'supplies', 'service' and 'consumable' are terms of
\* CONSUMABLE_TERMS; of the texts used here, lower-cased, "Shop Supplies",
\* "SERVICE-01", "Supplies-7" and "Consumable" contain one.
ProductNames == {"Laser Module", "Shop Supplies"}
ContainsConsumableTerm(item_name) ==
    item_name \in {"Shop Supplies", "SERVICE-01", "Supplies-7", "Consumable"}

\* dict.get(key, default)
Get(dict, key, default) == IF key \in DOMAIN dict THEN dict[key] ELSE default

\* Labels of custom fields.  'netsuite' occurs in the lower-cased
\* "NetSuite Sales Order ID" only.
FieldLabels == {"NetSuite Sales Order ID", "Region"}
IsNetsuiteLabel(label) == label \in {"NetSuite Sales Order ID"}

\* get_completion_date gives None, or the updated_at text of the last
\* COMPLETED/CLOSED status: an ISO timestamp (its hour is kept) or other text.
NoDate == [kind |-> "none", hour |-> 0]
IsoDate(h) == [kind |-> "iso", hour |-> h]
BadDate == [kind |-> "text", hour |-> 0]

\* get_job_category: the category name, from either shape of job_category.
get_job_category(job) == job.job_category.category_name

\* extract_line_items: one line item per entry of job['products'].
extract_line_items(job) ==
    [k \in 1..Len(job.products) |->
        [item_name |-> Get(job.products[k], "product_name", ""),
         item_code |-> Get(job.products[k], "product_id", ""),
         item_serial |-> Get(job.products[k], "serial_nos", ""),
         price |-> Get(job.products[k], "price", "0"),
         line_item_type |-> Get(job.products[k], "product_type", "")]]

\* extract_checklist_parts: one part per serial number found in a checklist answer.
RECURSIVE extract_checklist_parts_from(_)
extract_checklist_parts_from(checklist) ==
    IF checklist = <<>> THEN <<>>
    ELSE LET item == Head(checklist) IN
         [k \in 1..Len(item.serials) |->
             [checklist_question |-> item.question, part_serial |-> item.serials[k]]]
         \o extract_checklist_parts_from(Tail(checklist))

extract_checklist_parts(job) == extract_checklist_parts_from(job.checklist)

\* extract_netsuite_id: the value of the first custom field whose label names
\* NetSuite and whose value is not blank; None without one.
extract_netsuite_id(job) ==
    LET S == {k \in 1..Len(job.custom_fields) :
                 /\ IsNetsuiteLabel(job.custom_fields[k].label)
                 /\ job.custom_fields[k].value /= ""} IN
    IF S = {} THEN NoneStr
    ELSE job.custom_fields[CHOOSE k \in S : \A m \in S : k <= m].value

\* extract_custom_fields: one row per custom field.
extract_custom_fields(job) ==
    [k \in 1..Len(job.custom_fields) |->
        [field_label |-> job.custom_fields[k].label,
         field_value |-> job.custom_fields[k].value]]

get_completion_date(job) == job.completed_at

\* `not netsuite_id`: None or the empty text.
Falsy(text) == text \in {NoneStr, ""}

\* is_consumable of rule 1: a consumable term in the lower-cased name, code,
\* serial or type of the item.
is_consumable(item) ==
    \/ ContainsConsumableTerm(item.item_name)
    \/ ContainsConsumableTerm(item.item_code)
    \/ ContainsConsumableTerm(item.item_serial)
    \/ ContainsConsumableTerm(item.line_item_type)

\* The flag of rule 1 and the flag of rule 2.
MissingNetsuiteFlag(line_items, non_consumable_items) ==
    [flag_type |-> "missing_netsuite_id", flag_severity |-> "error",
     details |-> [line_items_count |-> Len(non_consumable_items),
                  line_items |-> [k \in 1..Len(non_consumable_items) |->
                                     non_consumable_items[k].item_name],
                  consumables_excluded |-> Len(line_items) - Len(non_consumable_items)]]
PartsReplacedFlag(checklist_parts) ==
    [flag_type |-> "parts_replaced_no_line_items", flag_severity |-> "error",
     details |-> [parts_count |-> Len(checklist_parts),
                  parts_replaced |-> [k \in 1..Len(checklist_parts) |->
                                         checklist_parts[k].part_serial]]]

\* validate_job with a rule 1 that tells a consumable by the item's name only.
validate_job_NameOnly(line_items, checklist_parts, netsuite_id, job_category) ==
    IF ContainsSkipTerm(job_category) THEN <<>>
    ELSE LET non_consumable_items ==
                 SelectSeq(line_items, LAMBDA item : ~ContainsConsumableTerm(item.item_name))
             rule1 == IF line_items /= <<>> /\ Falsy(netsuite_id)
                         /\ non_consumable_items /= <<>>
                      THEN <<MissingNetsuiteFlag(line_items, non_consumable_items)>>
                      ELSE <<>>
             rule2 == IF checklist_parts /= <<>> /\ line_items = <<>>
                      THEN <<PartsReplacedFlag(checklist_parts)>> ELSE <<>>
         IN rule1 \o rule2

\* validate_job with a rule 2 that does not look at the line items.
validate_job_PartsAlone(line_items, checklist_parts, netsuite_id, job_category) ==
    IF ContainsSkipTerm(job_category) THEN <<>>
    ELSE LET non_consumable_items ==
                 SelectSeq(line_items, LAMBDA item : ~is_consumable(item))
             rule1 == IF line_items /= <<>> /\ Falsy(netsuite_id)
                         /\ non_consumable_items /= <<>>
                      THEN <<MissingNetsuiteFlag(line_items, non_consumable_items)>>
                      ELSE <<>>
             rule2 == IF checklist_parts /= <<>>
                      THEN <<PartsReplacedFlag(checklist_parts)>> ELSE <<>>
         IN rule1 \o rule2

\* validate_job: the list of flags of a job.
validate_job(line_items, checklist_parts, netsuite_id, job_category) ==
    IF ContainsSkipTerm(job_category) THEN <<>>
    ELSE LET non_consumable_items ==
                 SelectSeq(line_items, LAMBDA item : ~is_consumable(item))
             rule1 == IF line_items /= <<>> /\ Falsy(netsuite_id)
                         /\ non_consumable_items /= <<>>
                      THEN <<MissingNetsuiteFlag(line_items, non_consumable_items)>>
                      ELSE <<>>
             rule2 == IF checklist_parts /= <<>> /\ line_items = <<>>
                      THEN <<PartsReplacedFlag(checklist_parts)>> ELSE <<>>
         IN rule1 \o rule2

\* The arguments validate_job is checked on: up to MaxItems line items (a
\* part, and an item that is a consumable by its name, code, serial or
\* type), up to MaxItems checklist parts, a NetSuite id that is None, empty
\* or set, and a category with or without a skip term.
ValidateItems ==
    {[item_name |-> "Laser Module", item_code |-> "LM-100", item_serial |-> "",
      line_item_type |-> "PARTS"],
     [item_name |-> "Shop Supplies", item_code |-> "", item_serial |-> "",
      line_item_type |-> ""],
     [item_name |-> "Travel", item_code |-> "SERVICE-01", item_serial |-> "",
      line_item_type |-> ""],
     [item_name |-> "Wipes", item_code |-> "", item_serial |-> "Supplies-7",
      line_item_type |-> ""],
     [item_name |-> "Filter", item_code |-> "", item_serial |-> "",
      line_item_type |-> "Consumable"]}
ValidateParts ==
    {[checklist_question |-> "Part replaced", part_serial |-> sn] :
        sn \in {"WM-250613-004", "CR-SM-000571-RW"}}
SeqsUpTo(S, n) == UNION {[1..k -> S] : k \in 0..n}
ValidateArgs ==
    [line_items : SeqsUpTo(ValidateItems, MaxItems),
     checklist_parts : SeqsUpTo(ValidateParts, MaxItems),
     netsuite_id : {NoneStr, "", "SO1"},
     job_category : {"", "LaserWeeder Service Call", "Reaper PM", "SLAYER PM 2024"}]

\* One call of validate_job.
Validate ==
    /\ fn_args \in ValidateArgs
    /\ fn_result = NoResult
    /\ fn_result' = [returned |-> validate_job(fn_args.line_items,
                                               fn_args.checklist_parts,
                                               fn_args.netsuite_id,
                                               fn_args.job_category)]
    /\ UNCHANGED <<fn_args, notifVars, fetchVars, updVars, enrichVars, syncVars>>

InitValidate ==
    /\ fn_args \in ValidateArgs
    /\ fn_result = NoResult
    /\ NotifyIdle /\ FetchIdle /\ UpdatedIdle /\ EnrichIdle /\ SyncIdle

NextValidate == Validate

SpecValidate == InitValidate /\ [][NextValidate]_vars

----------------------------------------------------------------------------
(* sync_jobs_to_db.py: sync_jobs_to_database against the store             *)

\* The job records the API can hold for a job_uid: a category (in either of
\* the two shapes job_category comes in) and the rest of the record;
\* updated_at is the hour of the record's last change.
LaserWeederCall == [shape |-> "dict", category_name |-> "LaserWeeder Service Call"]
ShopRepair == [shape |-> "list", category_name |-> "WM Repair - In Shop"]
ReaperPM == [shape |-> "dict", category_name |-> "Reaper PM"]

\* completed at hour 0 with a part on it and no NetSuite id
PartNoNetsuite ==
    [products |-> <<[product_name |-> "Laser Module"]>>, custom_fields |-> <<>>,
     checklist |-> <<>>, completed_at |-> IsoDate(0), organization_uid |-> "org1"]
\* the same with the NetSuite id filled in
PartWithNetsuite ==
    [products |-> <<[product_name |-> "Laser Module"]>>,
     custom_fields |-> <<[label |-> "NetSuite Sales Order ID", value |-> "SO1"]>>,
     checklist |-> <<>>, completed_at |-> IsoDate(0), organization_uid |-> "org1"]
\* An entry of the jobs list that is None (enrich_jobs_with_assets leaves one
\* in the slot of a job_uid that occurs again later in its input).
NoneEntry == [none_entry |-> TRUE]

\* An entry of custom_fields that is no dict.
NoneField == [none_field |-> TRUE]
HasNoneField(job) == \E k \in 1..Len(job.custom_fields) : job.custom_fields[k] = NoneField

\* A price that is an object ({"amount": ...}): a value sqlite3 cannot bind
\* to a parameter of the INSERT INTO job_line_items.
ObjectPrice == "{object}"
FirstUnbindable(line_items) ==
    LET S == {k \in 1..Len(line_items) : line_items[k].price = ObjectPrice} IN
    IF S = {} THEN 0 ELSE CHOOSE k \in S : \A m \in S : k <= m

\* completed at hour 0, NetSuite id filled in, a part whose price is an object
PartObjectPrice ==
    [products |-> <<[product_name |-> "Scanner", price |-> ObjectPrice]>>,
     custom_fields |-> <<[label |-> "NetSuite Sales Order ID", value |-> "SO1"]>>,
     checklist |-> <<>>, completed_at |-> IsoDate(0), organization_uid |-> "org1"]
\* completed at hour 0 with a part on it and a custom field that is no dict
PartNoneField ==
    [products |-> <<[product_name |-> "Laser Module"]>>, custom_fields |-> <<NoneField>>,
     checklist |-> <<>>, completed_at |-> IsoDate(0), organization_uid |-> "org1"]
\* open, a part replaced per the checklist, no line items, no organization
ChecklistPartOnly ==
    [products |-> <<>>, custom_fields |-> <<>>,
     checklist |-> <<[question |-> "Part replaced", serials |-> <<"WM-250613-004">>]>>,
     completed_at |-> NoDate, organization_uid |-> ""]

SourceRecords(job_uid) ==
    {[job_uid |-> job_uid, job_category |-> c, products |-> p.products,
      custom_fields |-> p.custom_fields, checklist |-> p.checklist,
      completed_at |-> p.completed_at, organization_uid |-> p.organization_uid,
      updated_at |-> 0] :
        c \in IF job_uid = "j1" THEN {LaserWeederCall} ELSE {ShopRepair, ReaperPM},
        p \in IF job_uid = "j1" THEN {PartNoNetsuite, PartWithNetsuite, ChecklistPartOnly}
              ELSE {PartNoNetsuite, ChecklistPartOnly}}

\* The lists of job_uids a run is handed: no repetition, in the order the
\* list endpoint serves them.
RunInputs == {<<>>, <<"j1">>, <<"j2">>, <<"j1", "j2">>}

\* DELETE FROM jobs WHERE job_category NOT IN (allowlist), without the filter.
CleanupJobs_KeepAll(jobs_table, allowed) == jobs_table

\* DELETE FROM jobs WHERE job_category NOT IN (allowlist).
CleanupJobs(jobs_table, allowed) ==
    [j \in JobUids |->
        IF jobs_table[j] /= NoRow /\ jobs_table[j].job_category \notin allowed
        THEN NoRow ELSE jobs_table[j]]

\* Child rows inserted without the DELETE before them.
ReplaceRows_NoDelete(table, job_uid, rows) ==
    [table EXCEPT ![job_uid] = @ \o rows]

\* DELETE FROM <child table> WHERE job_uid = ?, then one INSERT per row.
ReplaceRows(table, job_uid, rows) ==
    [table EXCEPT ![job_uid] = rows]

\* conn.commit() of the sync run's connection: its view becomes the committed
\* content; notification_log is written by the notifier's connections only.
Commit(t, d) ==
    [t EXCEPT !.notifTable = d.notifTable, !.notification_log = d.notification_log]

\* is_recent: the completion date parses and lies at most 48 hours back.
is_recent(completed_at, clock) ==
    /\ completed_at.kind = "iso"
    /\ clock - completed_at.hour <= recent_hours

\* The notification step of the flag loop for one flag, whatever its type.
NotifyFromSync_AnyFlag(d, webhook_url, job_uid, flag, completed_at, clock, ok) ==
    IF /\ webhook_url
       /\ completed_at.kind /= "none"
       /\ is_recent(completed_at, clock)
    THEN LET r == send_missing_netsuite_notification(d, TRUE, webhook_url,
                                                     job_uid, FALSE, ok) IN
         [db |-> r.db, posted |-> r.posted, result |-> r.result, asked |-> TRUE]
    ELSE [db |-> d, posted |-> FALSE, result |-> FALSE, asked |-> FALSE]

\* The notification step of the flag loop for one flag.  The notifier opens
\* connections of its own while the run's connection holds the write lock
\* (its transaction is open since INSERT INTO sync_log or the job's own
\* writes); whatever the notifier raises is caught.
NotifyFromSync(d, webhook_url, job_uid, flag, completed_at, clock, ok) ==
    IF /\ webhook_url
       /\ flag.flag_type = "missing_netsuite_id"
       /\ completed_at.kind /= "none"
       /\ is_recent(completed_at, clock)
    THEN LET r == send_missing_netsuite_notification(d, TRUE, webhook_url,
                                                     job_uid, FALSE, ok) IN
         [db |-> r.db, posted |-> r.posted, result |-> r.result, asked |-> TRUE]
    ELSE [db |-> d, posted |-> FALSE, result |-> FALSE, asked |-> FALSE]

\* `for flag in validation_flags`: the notification step of each flag in turn.
RECURSIVE NotifyEach(_, _, _, _, _, _, _)
NotifyEach(d, webhook_url, job_uid, flags, completed_at, clock, ok) ==
    IF flags = <<>> THEN [db |-> d, posted |-> FALSE, result |-> FALSE, asked |-> FALSE]
    ELSE LET r == NotifyFromSync(d, webhook_url, job_uid, Head(flags),
                                 completed_at, clock, ok)
             rest == NotifyEach(r.db, webhook_url, job_uid, Tail(flags),
                                completed_at, clock, ok)
         IN [db |-> rest.db, posted |-> r.posted \/ rest.posted,
             result |-> r.result \/ rest.result, asked |-> r.asked \/ rest.asked]

\* The run starts: cleanup DELETE, commit, INSERT INTO sync_log (which opens
\* the run's transaction).
SyncStart(input, slack_webhook_url) ==
    /\ sync_pc = "idle"
    /\ nruns < MaxRuns
    /\ LET input_jobs == [k \in 1..Len(input) |->
                             IF input[k] = NoneStr THEN NoneEntry ELSE source[input[k]]]
           cleaned == [db EXCEPT !.jobs = CleanupJobs(@, allowed_categories)]
       IN /\ db' = cleaned
          /\ tx' = [cleaned EXCEPT !.sync_log =
                       Append(@, [status |-> "in_progress", jobs_processed |-> 0,
                                  flags_created |-> 0, errors |-> 0])]
          /\ run' = [jobs |-> input_jobs, i |-> 1,
                     webhook_url |-> slack_webhook_url,
                     allowed_categories |-> allowed_categories,
                     sync_id |-> Len(db.sync_log) + 1,
                     jobs_processed |-> 0, jobs_skipped |-> 0,
                     flags_created |-> 0, errors |-> 0,
                     organizations_synced |-> {}, asked |-> {},
                     deleted |-> {j \in JobUids : cleaned.jobs[j] /= db.jobs[j]},
                     repeat_of |-> IF /\ last_run /= NoRun
                                      /\ last_run.jobs = input_jobs
                                      /\ last_run.db = db
                                      /\ last_run.allowed_categories = allowed_categories
                                   THEN last_run ELSE NoRun]
    /\ sync_pc' = "run"
    /\ nruns' = nruns + 1
    /\ last_run' = NoRun /\ prev_run' = NoRun
    /\ UNCHANGED <<source, allowed_categories, now, dispatched,
                   calls, fetchVars, updVars, enrichVars, fnVars>>

\* One iteration of `for job in jobs`.  ok is the answer the webhook gives if
\* the iteration posts to it.
SyncJob(ok) ==
    /\ sync_pc = "run"
    /\ run.i <= Len(run.jobs)
    /\ run.jobs[run.i] /= NoneEntry
    /\ LET job == run.jobs[run.i]
           job_uid == job.job_uid
           job_category == get_job_category(job)
           organization_uid == job.organization_uid
           new_org == organization_uid /= ""
                      /\ organization_uid \notin run.organizations_synced
       IN IF job_category \notin run.allowed_categories
          THEN /\ run' = [run EXCEPT !.i = @ + 1, !.jobs_skipped = @ + 1]
               /\ UNCHANGED <<db, tx, dispatched>>
          ELSE IF HasNoneField(job)
          \* extract_netsuite_id raises after the organization was inserted;
          \* the handler of the loop body adds the message to errors
          THEN /\ tx' = [tx EXCEPT !.organizations =
                            IF new_org THEN @ \cup {organization_uid} ELSE @]
               /\ run' = [run EXCEPT
                            !.i = @ + 1, !.errors = @ + 1,
                            !.organizations_synced =
                                IF new_org THEN @ \cup {organization_uid} ELSE @]
               /\ UNCHANGED <<db, dispatched>>
          ELSE IF FirstUnbindable(extract_line_items(job)) > 0
          \* the INSERT of a line item raises "Error binding parameter" after
          \* the organization and the jobs row were written and the job's
          \* line items deleted; the items before it are inserted.  The
          \* handler adds the message to errors; nothing is rolled back.
          THEN LET line_items == extract_line_items(job)
                   checklist_parts == extract_checklist_parts(job)
                   netsuite_id == extract_netsuite_id(job)
               IN /\ tx' = [tx EXCEPT
                            !.organizations = IF new_org THEN @ \cup {organization_uid} ELSE @,
                            !.jobs[job_uid] =
                                [job_category |-> job_category,
                                 organization_uid |-> organization_uid,
                                 updated_at |-> job.updated_at,
                                 completed_at |-> get_completion_date(job),
                                 has_line_items |-> line_items /= <<>>,
                                 has_checklist_parts |-> checklist_parts /= <<>>,
                                 has_netsuite_id |-> netsuite_id /= NoneStr,
                                 netsuite_sales_order_id |-> netsuite_id,
                                 synced_at |-> now],
                            !.job_line_items =
                                ReplaceRows(@, job_uid,
                                    SubSeq(line_items, 1, FirstUnbindable(line_items) - 1))]
                  /\ run' = [run EXCEPT
                               !.i = @ + 1, !.errors = @ + 1,
                               !.organizations_synced =
                                   IF new_org THEN @ \cup {organization_uid} ELSE @]
                  /\ UNCHANGED <<db, dispatched>>
          ELSE LET line_items == extract_line_items(job)
                   checklist_parts == extract_checklist_parts(job)
                   netsuite_id == extract_netsuite_id(job)
                   custom_fields == extract_custom_fields(job)
                   completed_at == get_completion_date(job)
                   category_name == IF job.job_category.shape = "dict"
                                    THEN job.job_category.category_name ELSE ""
                   validation_flags == validate_job(line_items, checklist_parts,
                                                    netsuite_id, category_name)
                   t1 == [tx EXCEPT
                            \* INSERT OR IGNORE INTO organizations
                            !.organizations = IF new_org THEN @ \cup {organization_uid} ELSE @,
                            \* INSERT OR REPLACE INTO jobs
                            !.jobs[job_uid] =
                                [job_category |-> job_category,
                                 organization_uid |-> organization_uid,
                                 updated_at |-> job.updated_at,
                                 completed_at |-> completed_at,
                                 has_line_items |-> line_items /= <<>>,
                                 has_checklist_parts |-> checklist_parts /= <<>>,
                                 has_netsuite_id |-> netsuite_id /= NoneStr,
                                 netsuite_sales_order_id |-> netsuite_id,
                                 synced_at |-> now],
                            !.job_line_items = ReplaceRows(@, job_uid, line_items),
                            !.job_checklist_parts = ReplaceRows(@, job_uid, checklist_parts),
                            !.job_custom_fields = ReplaceRows(@, job_uid, custom_fields),
                            !.validation_flags = ReplaceRows(@, job_uid,
                                [k \in 1..Len(validation_flags) |->
                                    [flag_type |-> validation_flags[k].flag_type,
                                     is_resolved |-> FALSE]])]
                   n == NotifyEach(db, run.webhook_url, job_uid, validation_flags,
                                   completed_at, now, ok)
                   jobs_processed == run.jobs_processed + 1
               IN /\ tx' = t1
                  /\ db' = IF jobs_processed % commit_every = 0
                           THEN Commit(t1, n.db) ELSE n.db
                  /\ run' = [run EXCEPT
                               !.i = @ + 1,
                               !.jobs_processed = jobs_processed,
                               !.flags_created = @ + Len(validation_flags),
                               !.asked = IF n.asked THEN @ \cup {run.i} ELSE @,
                               !.organizations_synced =
                                   IF new_org THEN @ \cup {organization_uid} ELSE @]
                  /\ dispatched' = [dispatched EXCEPT ![job_uid] =
                                       IF n.posted /\ n.result THEN @ + 1 ELSE @]
    /\ UNCHANGED <<source, allowed_categories, now, sync_pc, nruns, last_run, prev_run,
                   batch_run, calls, fetchVars, updVars, enrichVars, fnVars>>

\* An entry of the list that is no dict (None): job.get raises in the loop
\* body and again in its handler (line 651), so the exception leaves
\* sync_jobs_to_database.  Nothing is committed or closed on the way out: the
\* connection, its open transaction and its write lock live on until the
\* interpreter collects the connection object.
SyncRaise ==
    /\ sync_pc = "run"
    /\ run.i <= Len(run.jobs)
    /\ run.jobs[run.i] = NoneEntry
    /\ sync_pc' = "leaked"
    /\ run' = NoRun
    /\ last_run' = NoRun /\ prev_run' = NoRun
    /\ UNCHANGED <<db, tx, source, allowed_categories, now, nruns, dispatched,
                   calls, fetchVars, updVars, enrichVars, fnVars>>

\* The interpreter collects the connection of a run that raised: its
\* uncommitted writes are rolled back and the write lock is released.
CollectGarbage ==
    /\ sync_pc = "leaked"
    /\ tx' = NoTx
    /\ sync_pc' = "idle"
    /\ UNCHANGED <<db, source, allowed_categories, now, run, nruns, dispatched,
                   last_run, prev_run, batch_run, calls, fetchVars, updVars, enrichVars, fnVars>>

\* sync_jobs_to_database entered while such a connection holds the write
\* lock: the cleanup DELETE raises "database is locked" after the busy
\* timeout and the exception leaves the function; the store is untouched.
SyncStartLocked ==
    /\ sync_pc = "leaked"
    /\ nruns < MaxRuns
    /\ nruns' = nruns + 1
    /\ UNCHANGED <<db, tx, source, allowed_categories, now, sync_pc, run, dispatched,
                   last_run, prev_run, calls, fetchVars, updVars, enrichVars, fnVars>>

\* After the loop: UPDATE sync_log, commit, close.
SyncFinish ==
    /\ sync_pc = "run"
    /\ run.i > Len(run.jobs)
    /\ LET t1 == [tx EXCEPT !.sync_log[run.sync_id] =
                     [status |-> "completed", jobs_processed |-> run.jobs_processed,
                      flags_created |-> run.flags_created, errors |-> run.errors]]
           d1 == Commit(t1, db)
       IN /\ db' = d1
          /\ last_run' = [jobs |-> run.jobs, deleted |-> run.deleted, db |-> d1,
                          allowed_categories |-> run.allowed_categories]
          /\ prev_run' = run.repeat_of
    /\ tx' = NoTx
    /\ sync_pc' = "idle"
    /\ run' = NoRun
    /\ UNCHANGED <<source, allowed_categories, now, nruns, dispatched,
                   calls, fetchVars, updVars, enrichVars, fnVars>>

\* queries.py: mark_job_resolved, from the dashboard, between runs.
mark_job_resolved(job_uid) ==
    /\ sync_pc = "idle"
    /\ db' = [db EXCEPT !.validation_flags[job_uid] =
                 [k \in 1..Len(@) |-> [@[k] EXCEPT !.is_resolved = TRUE]]]
    /\ last_run' = NoRun /\ prev_run' = NoRun
    /\ UNCHANGED <<source, allowed_categories, now, tx, sync_pc, run, nruns, dispatched,
                   batch_run, calls, fetchVars, updVars, enrichVars, fnVars>>

\* A category is taken off ALLOWED_JOB_CATEGORIES and the code redeployed,
\* between runs.
RemoveCategory(c) ==
    /\ sync_pc = "idle"
    /\ c \in allowed_categories
    /\ \E j \in JobUids : get_job_category(source[j]) = c
    /\ Cardinality(ALLOWED_JOB_CATEGORIES \ allowed_categories) < MaxEdits
    /\ allowed_categories' = allowed_categories \ {c}
    /\ last_run' = NoRun /\ prev_run' = NoRun
    /\ UNCHANGED <<source, now, tx, sync_pc, run, nruns, dispatched, batch_run,
                   notifVars, fetchVars, updVars, enrichVars, fnVars>>

\* Time passes between runs, a little more than one notification window at
\* a time.
Tick ==
    /\ sync_pc = "idle"
    /\ now < MaxTicks * (recent_hours + 1)
    /\ now' = now + recent_hours + 1
    /\ prev_run' = NoRun
    /\ UNCHANGED <<source, allowed_categories, tx, sync_pc, run, nruns, dispatched,
                   last_run, batch_run, notifVars, fetchVars, updVars, enrichVars, fnVars>>

\* slack_notifier.py: init_notification_tracking called between runs, when
\* nobody holds the write lock.
InitTracking ==
    /\ sync_pc = "idle"
    /\ db' = init_notification_tracking(db, FALSE).db
    /\ last_run' = NoRun /\ prev_run' = NoRun
    /\ UNCHANGED <<source, allowed_categories, now, tx, sync_pc, run, nruns, dispatched,
                   batch_run, calls, fetchVars, updVars, enrichVars, fnVars>>

\* A fresh installation: empty store, some jobs at the API.
Init ==
    /\ source \in [JobUids -> UNION {SourceRecords(j) : j \in JobUids}]
    /\ \A j \in JobUids : source[j] \in SourceRecords(j)
    /\ allowed_categories = ALLOWED_JOB_CATEGORIES
    /\ now = 0 /\ tx = NoTx /\ sync_pc = "idle" /\ run = NoRun /\ nruns = 0
    /\ dispatched = [j \in JobUids |-> 0]
    /\ last_run = NoRun /\ prev_run = NoRun
    /\ batch_run = NoBatchRun
    /\ NotifyIdle /\ FetchIdle /\ UpdatedIdle /\ EnrichIdle /\ FnIdle

Next ==
    \/ \E input \in RunInputs, url \in BOOLEAN :
          SyncStart(input, url) /\ UNCHANGED batch_run
    \/ \E ok \in BOOLEAN : SyncJob(ok)
    \/ SyncFinish /\ UNCHANGED batch_run
    \/ \E c \in ALLOWED_JOB_CATEGORIES : RemoveCategory(c)
    \/ Tick
    \/ InitTracking
    \/ \E j \in JobUids : mark_job_resolved(j)

Spec == Init /\ [][Next]_vars

----------------------------------------------------------------------------
(* streamlit_sync.py: ZuperSync.sync_jobs_in_batches                       *)

\* The lists of job_uids the coordinator is handed (a job_uid may occur more
\* than once), with a batch_size that cuts them into at most MaxRuns batches.
RECURSIVE UidLists(_)
UidLists(n) ==
    IF n = 0 THEN {<<>>}
    ELSE UidLists(n - 1) \cup {Append(l, j) : l \in {x \in UidLists(n - 1) : Len(x) = n - 1},
                                              j \in JobUids}

\* jobs[batch_start:batch_end]
Batch(b) ==
    SubSeq(b.jobs, b.batch_start + 1,
           IF b.batch_start + b.batch_size < Len(b.jobs)
           THEN b.batch_start + b.batch_size ELSE Len(b.jobs))

\* enrich_jobs_with_assets on a batch, as the list handed on to
\* sync_jobs_to_database: job_uid_to_index keeps the last index of a job_uid,
\* so the slot of an earlier occurrence stays None.
EnrichedBatch(batch) ==
    [k \in 1..Len(batch) |->
        IF \E m \in (k + 1)..Len(batch) : batch[m] = batch[k] THEN NoneStr ELSE batch[k]]

\* The batch is over: its outcome is noted and the loop moves on.
NextBatch(b, outcome, synced) ==
    [b EXCEPT !.batch_start = @ + b.batch_size, !.phase = "loop",
              !.total_synced = @ + synced, !.enriched_batch = <<>>,
              !.outcomes = Append(@, outcome)]

\* Top of the loop body: the batch is cut and enriched.
BatchEnrich ==
    /\ batch_run /= NoBatchRun
    /\ batch_run.phase = "loop"
    /\ batch_run.batch_start < Len(batch_run.jobs)
    /\ batch_run' = [batch_run EXCEPT !.phase = "enriched",
                                      !.enriched_batch = EnrichedBatch(Batch(batch_run))]
    /\ UNCHANGED <<source, allowed_categories, now, tx, sync_pc, run, nruns, dispatched,
                   last_run, prev_run, notifVars, fetchVars, updVars, enrichVars, fnVars>>

\* sync_jobs_to_database(enriched_batch) is entered; SLACK_WEBHOOK_URL may be
\* set or not.  While a dead run's connection holds the write lock the call
\* raises at once and the handler goes on with the next batch.
BatchPersistStart(url) ==
    /\ batch_run /= NoBatchRun
    /\ batch_run.phase = "enriched"
    /\ \/ /\ SyncStart(batch_run.enriched_batch, url)
          /\ batch_run' = [batch_run EXCEPT !.phase = "persisting"]
       \/ /\ SyncStartLocked
          /\ batch_run' = NextBatch(batch_run, "raised", 0)

\* sync_jobs_to_database returns: total_synced += len(enriched_batch).
BatchPersisted ==
    /\ batch_run /= NoBatchRun
    /\ batch_run.phase = "persisting"
    /\ SyncFinish
    /\ batch_run' = NextBatch(batch_run, "ok", Len(batch_run.enriched_batch))

\* sync_jobs_to_database raises: except Exception ... continue.
BatchPersistRaised ==
    /\ batch_run /= NoBatchRun
    /\ batch_run.phase = "persisting"
    /\ SyncRaise
    /\ batch_run' = NextBatch(batch_run, "raised", 0)

\* After the loop: the final counts are read and the result object returned.
\* (Reading works while a dead run's connection holds the write lock.)
BatchReturn ==
    /\ batch_run /= NoBatchRun
    /\ batch_run.phase = "loop"
    /\ batch_run.batch_start >= Len(batch_run.jobs)
    /\ batch_run' = [batch_run EXCEPT
                       !.phase = "returned",
                       !.result = [total_jobs |->
                                      Cardinality({j \in JobUids : db.jobs[j] /= NoRow})]]
    /\ UNCHANGED <<source, allowed_categories, now, tx, sync_pc, run, nruns, dispatched,
                   last_run, prev_run, notifVars, fetchVars, updVars, enrichVars, fnVars>>

\* sync_jobs_in_batches is entered on a fresh installation.
InitBatches ==
    /\ source \in [JobUids -> UNION {SourceRecords(j) : j \in JobUids}]
    /\ \A j \in JobUids : source[j] \in SourceRecords(j)
    /\ allowed_categories = ALLOWED_JOB_CATEGORIES
    /\ now = 0 /\ tx = NoTx /\ sync_pc = "idle" /\ run = NoRun /\ nruns = 0
    /\ dispatched = [j \in JobUids |-> 0]
    /\ last_run = NoRun /\ prev_run = NoRun
    /\ \E batch_size \in 1..MaxBatch, l \in UidLists(MaxRuns * MaxBatch) :
          /\ Len(l) <= MaxRuns * batch_size
          /\ batch_run = [jobs |-> l, batch_size |-> batch_size, batch_start |-> 0,
                          phase |-> "loop", enriched_batch |-> <<>>, total_synced |-> 0,
                          outcomes |-> <<>>, result |-> NoRun]
    /\ NotifyIdle /\ FetchIdle /\ UpdatedIdle /\ EnrichIdle /\ FnIdle

NextBatches ==
    \/ BatchEnrich
    \/ \E url \in BOOLEAN : BatchPersistStart(url)
    \/ \E ok \in BOOLEAN : SyncJob(ok)
    \/ BatchPersisted
    \/ BatchPersistRaised
    \/ CollectGarbage
    \/ BatchReturn

SpecBatches == InitBatches /\ [][NextBatches]_vars

----------------------------------------------------------------------------
(* sync_jobs_to_database on lists of any shape (SpecRuns)                  *)

\* More records the API can hold: completed at hour 1, completed with a
\* timestamp that is no ISO text, not completed, and completed with a part
\* in the checklist only.
PartLate ==
    [products |-> <<[product_name |-> "Laser Module"]>>, custom_fields |-> <<>>,
     checklist |-> <<>>, completed_at |-> IsoDate(1), organization_uid |-> "org1"]
PartBadDate ==
    [products |-> <<[product_name |-> "Laser Module"]>>, custom_fields |-> <<>>,
     checklist |-> <<>>, completed_at |-> BadDate, organization_uid |-> "org1"]
PartOpen ==
    [products |-> <<[product_name |-> "Laser Module"]>>, custom_fields |-> <<>>,
     checklist |-> <<>>, completed_at |-> NoDate, organization_uid |-> ""]
ChecklistPartDone ==
    [products |-> <<>>, custom_fields |-> <<>>,
     checklist |-> <<[question |-> "Part replaced", serials |-> <<"WM-250613-004">>]>>,
     completed_at |-> IsoDate(0), organization_uid |-> "org1"]

RunsRecords(job_uid) ==
    {[job_uid |-> job_uid, job_category |-> c, products |-> p.products,
      custom_fields |-> p.custom_fields, checklist |-> p.checklist,
      completed_at |-> p.completed_at, organization_uid |-> p.organization_uid,
      updated_at |-> 0] :
        c \in IF job_uid = "j1" THEN {LaserWeederCall} ELSE {ShopRepair},
        p \in IF job_uid = "j1"
              THEN {PartNoNetsuite, PartLate, PartBadDate, PartNoneField, ChecklistPartDone}
              ELSE {PartNoNetsuite, PartOpen}}

\* The lists a run is handed: short ones, with or without an entry that is
\* None, and one long enough to reach the commit inside the loop before an
\* entry that is None (its other entries name the same job: the list is not
\* required to name a job once only).
LongList == [k \in 1..commit_every |-> "j2"]
RunsInputs == {<<"j1">>, <<"j1", "j2">>, <<NoneStr>>, <<"j2", NoneStr, "j1">>,
               LongList \o <<NoneStr>>}

InitRuns ==
    /\ source \in [JobUids -> UNION {RunsRecords(j) : j \in JobUids}]
    /\ \A j \in JobUids : source[j] \in RunsRecords(j)
    /\ allowed_categories = ALLOWED_JOB_CATEGORIES
    /\ now = 0 /\ tx = NoTx /\ sync_pc = "idle" /\ run = NoRun /\ nruns = 0
    /\ dispatched = [j \in JobUids |-> 0]
    /\ last_run = NoRun /\ prev_run = NoRun
    /\ batch_run = NoBatchRun
    /\ NotifyIdle /\ FetchIdle /\ UpdatedIdle /\ EnrichIdle /\ FnIdle

NextRuns ==
    \/ \E input \in RunsInputs, url \in BOOLEAN :
          SyncStart(input, url) /\ UNCHANGED batch_run
    \/ \E ok \in BOOLEAN : SyncJob(ok)
    \/ SyncFinish /\ UNCHANGED batch_run
    \/ SyncRaise /\ UNCHANGED batch_run
    \/ CollectGarbage
    \/ SyncStartLocked /\ UNCHANGED batch_run
    \/ Tick

SpecRuns == InitRuns /\ [][NextRuns]_vars

----------------------------------------------------------------------------
(* sync_jobs_to_db.py: normalize_serial (SpecSerial)                       *)

\* A serial number is a sequence of characters.  str.upper() on the
\* characters used here:
UpperChar(c) ==
    CASE c = "c" -> "C" [] c = "r" -> "R" [] c = "s" -> "S" [] c = "m" -> "M"
      [] c = "w" -> "W" [] OTHER -> c
UpperStr(str) == [k \in 1..Len(str) |-> UpperChar(str[k])]

\* str.replace('-', '')
RemoveDashes(str) == SelectSeq(str, LAMBDA c : c /= "-")

\* str.startswith, str.endswith, str[n:], str[:n] (0 <= n) and str[:-n]
StartsWith(str, prefix) ==
    Len(prefix) <= Len(str) /\ SubSeq(str, 1, Len(prefix)) = prefix
EndsWith(str, suffix) ==
    Len(suffix) <= Len(str) /\ SubSeq(str, Len(str) - Len(suffix) + 1, Len(str)) = suffix
From(str, n) == SubSeq(str, n + 1, Len(str))
UpTo(str, n) == SubSeq(str, 1, IF n < Len(str) THEN n ELSE Len(str))
DropLast(str, n) == SubSeq(str, 1, Len(str) - n)

\* normalize_serial without the removal of the dashes the input has.
normalize_serial_KeepDashes(serial) ==
    LET s == UpperStr(serial) IN
    IF StartsWith(s, <<"C", "R", "S", "M">>)
    THEN LET digits == From(s, 4) IN
         IF EndsWith(digits, <<"R", "W">>)
         THEN <<"C", "R", "-", "S", "M", "-">> \o DropLast(digits, 2) \o <<"-", "R", "W">>
         ELSE <<"C", "R", "-", "S", "M", "-">> \o digits
    ELSE IF StartsWith(s, <<"C", "R", "Y", "1", "5", "0">>)
    THEN LET digits == From(s, 6) IN
         IF EndsWith(digits, <<"R">>)
         THEN <<"C", "R", "-", "Y", "1", "5", "0", "-">> \o DropLast(digits, 1) \o <<"-", "R">>
         ELSE <<"C", "R", "-", "Y", "1", "5", "0", "-">> \o digits
    ELSE IF StartsWith(s, <<"C", "R", "M", "P", "C">>)
    THEN <<"C", "R", "-", "M", "P", "C", "-">> \o From(s, 5)
    ELSE IF StartsWith(s, <<"S", "M">>) /\ ~StartsWith(s, <<"C", "R", "S", "M">>)
    THEN LET digits == From(s, 2) IN
         IF Len(digits) >= 9
         THEN <<"S", "M", "-">> \o UpTo(digits, 6) \o <<"-">> \o From(digits, 6)
         ELSE <<"S", "M", "-">> \o digits
    ELSE IF StartsWith(s, <<"W", "M">>)
    THEN LET digits == From(s, 2) IN
         IF Len(digits) >= 9
         THEN <<"W", "M", "-">> \o UpTo(digits, 6) \o <<"-">> \o From(digits, 6)
         ELSE <<"W", "M", "-">> \o digits
    ELSE UpperStr(serial)

\* normalize_serial
normalize_serial(serial) ==
    LET s == RemoveDashes(UpperStr(serial)) IN
    IF StartsWith(s, <<"C", "R", "S", "M">>)
    THEN LET digits == From(s, 4) IN
         IF EndsWith(digits, <<"R", "W">>)
         THEN <<"C", "R", "-", "S", "M", "-">> \o DropLast(digits, 2) \o <<"-", "R", "W">>
         ELSE <<"C", "R", "-", "S", "M", "-">> \o digits
    ELSE IF StartsWith(s, <<"C", "R", "Y", "1", "5", "0">>)
    THEN LET digits == From(s, 6) IN
         IF EndsWith(digits, <<"R">>)
         THEN <<"C", "R", "-", "Y", "1", "5", "0", "-">> \o DropLast(digits, 1) \o <<"-", "R">>
         ELSE <<"C", "R", "-", "Y", "1", "5", "0", "-">> \o digits
    ELSE IF StartsWith(s, <<"C", "R", "M", "P", "C">>)
    THEN <<"C", "R", "-", "M", "P", "C", "-">> \o From(s, 5)
    ELSE IF StartsWith(s, <<"S", "M">>) /\ ~StartsWith(s, <<"C", "R", "S", "M">>)
    THEN LET digits == From(s, 2) IN
         IF Len(digits) >= 9
         THEN <<"S", "M", "-">> \o UpTo(digits, 6) \o <<"-">> \o From(digits, 6)
         ELSE <<"S", "M", "-">> \o digits
    ELSE IF StartsWith(s, <<"W", "M">>)
    THEN LET digits == From(s, 2) IN
         IF Len(digits) >= 9
         THEN <<"W", "M", "-">> \o UpTo(digits, 6) \o <<"-">> \o From(digits, 6)
         ELSE <<"W", "M", "-">> \o digits
    ELSE UpperStr(serial)

\* The serials normalize_serial is checked on: a beginning (a known prefix
\* in upper or lower case, with or without dashes, or none), up to MaxDigits
\* digits with or without a dash in them, and an ending.
SerialHeads ==
    {<<>>, <<"C", "R", "S", "M">>, <<"C", "R", "-", "S", "M", "-">>, <<"c", "r", "s", "m">>,
     <<"C", "R", "Y", "1", "5", "0">>, <<"C", "R", "-", "Y", "1", "5", "0", "-">>,
     <<"C", "R", "M", "P", "C">>, <<"c", "r", "-", "M", "P", "C", "-">>,
     <<"S", "M">>, <<"s", "m", "-">>, <<"W", "M">>, <<"W", "M", "-">>, <<"w", "m">>,
     <<"C", "R">>, <<"P">>, <<"-", "W", "M">>, <<"W", "-", "M">>}
SerialDigits ==
    {[k \in 1..n |-> IF k = dash THEN "-" ELSE "1"] : n \in 0..MaxDigits, dash \in {0, 2, 7}}
SerialTails ==
    {<<>>, <<"R", "W">>, <<"-", "R", "W">>, <<"r", "w">>, <<"R">>, <<"-", "R">>,
     <<"W">>, <<"-">>, <<"R", "-", "W">>}
SerialInputs == {h \o d \o t : h \in SerialHeads, d \in SerialDigits, t \in SerialTails}

\* One call of normalize_serial.
Normalize ==
    /\ fn_result = NoResult
    /\ fn_result' = [returned |-> normalize_serial(fn_args.serial)]
    /\ UNCHANGED <<fn_args, notifVars, fetchVars, updVars, enrichVars, syncVars>>

InitSerial ==
    /\ fn_args \in [serial : SerialInputs]
    /\ fn_result = NoResult
    /\ NotifyIdle /\ FetchIdle /\ UpdatedIdle /\ EnrichIdle /\ SyncIdle

NextSerial == Normalize

SpecSerial == InitSerial /\ [][NextSerial]_vars

----------------------------------------------------------------------------
(* Full and differential syncs while the API's records change (SpecDiff)   *)

\* fetch_updated_jobs_only: the job_uids of the list it returns, given the
\* store and the records at the API.  last_sync is MAX(synced_at) over jobs
\* (None without a row); without it every job is returned, with it the jobs
\* whose updated_at is greater.
fetch_updated_jobs_only(d, records) ==
    LET stored == {j \in JobUids : d.jobs[j] /= NoRow}
        last_sync == CHOOSE t \in {d.jobs[j].synced_at : j \in stored} :
                         \A j \in stored : d.jobs[j].synced_at <= t
    IN IF stored = {} THEN JobUids
       ELSE {j \in JobUids : records[j].updated_at > last_sync}

\* A set of job_uids as the list the API serves them in.
UidList(S) == SelectSeq(<<"j1", "j2">>, LAMBDA j : j \in S)

\* A record changes at the API: its category is set (to the one it has or
\* to another) and updated_at becomes the time of the change, which is later
\* than everything that happened before.
SourceUpdate(job_uid, category) ==
    /\ now < MaxUpdates
    /\ now' = now + 1
    /\ source' = [source EXCEPT ![job_uid].job_category = category,
                                ![job_uid].updated_at = now + 1]
    /\ last_run' = NoRun /\ prev_run' = NoRun
    /\ UNCHANGED <<allowed_categories, tx, sync_pc, run, nruns, dispatched, batch_run,
                   notifVars, fetchVars, updVars, enrichVars, fnVars>>

\* A full sync: every job at the API.  A differential sync: the jobs
\* fetch_updated_jobs_only returns.  Either list is fetched when the run starts.
FullSyncStart(url) ==
    SyncStart(UidList(JobUids), url) /\ UNCHANGED batch_run
DifferentialSyncStart(url) ==
    SyncStart(UidList(fetch_updated_jobs_only(db, source)), url) /\ UNCHANGED batch_run

InitDiff ==
    /\ source \in [JobUids -> UNION {SourceRecords(j) : j \in JobUids}]
    /\ \A j \in JobUids : source[j] \in SourceRecords(j)
    /\ allowed_categories = ALLOWED_JOB_CATEGORIES
    /\ now = 0 /\ tx = NoTx /\ sync_pc = "idle" /\ run = NoRun /\ nruns = 0
    /\ dispatched = [j \in JobUids |-> 0]
    /\ last_run = NoRun /\ prev_run = NoRun
    /\ batch_run = NoBatchRun
    /\ NotifyIdle /\ FetchIdle /\ UpdatedIdle /\ EnrichIdle /\ FnIdle

NextDiff ==
    \/ \E url \in BOOLEAN : FullSyncStart(url)
    \/ \E url \in BOOLEAN : DifferentialSyncStart(url)
    \/ \E ok \in BOOLEAN : SyncJob(ok)
    \/ SyncFinish /\ UNCHANGED batch_run
    \/ \E j \in JobUids, c \in {LaserWeederCall, ReaperPM} : SourceUpdate(j, c)

SpecDiff == InitDiff /\ [][NextDiff]_vars

----------------------------------------------------------------------------
(* Sync runs while the records change at the API (SpecStore)               *)

\* A record with no products, no checklist answers and no custom fields.
BareJob ==
    [products |-> <<>>, custom_fields |-> <<>>, checklist |-> <<>>,
     completed_at |-> NoDate, organization_uid |-> ""]

\* The contents a record can have at the API, per job_uid.
StorePayloads(job_uid) ==
    IF job_uid = "j1"
    THEN {PartNoNetsuite, PartWithNetsuite, ChecklistPartOnly, BareJob,
          PartObjectPrice, PartNoneField}
    ELSE {PartNoNetsuite}

StoreRecord(job_uid, category, p) ==
    [job_uid |-> job_uid, job_category |-> category, products |-> p.products,
     custom_fields |-> p.custom_fields, checklist |-> p.checklist,
     completed_at |-> p.completed_at, organization_uid |-> p.organization_uid,
     updated_at |-> 0]

\* The record of a job is edited at the API, between runs: its products,
\* checklist answers and custom fields change.
SourceEdit(job_uid, p) ==
    /\ sync_pc = "idle"
    /\ p \in StorePayloads(job_uid)
    /\ source[job_uid] /= StoreRecord(job_uid, source[job_uid].job_category, p)
    /\ source' = [source EXCEPT
                     ![job_uid] = StoreRecord(job_uid, source[job_uid].job_category, p)]
    /\ last_run' = NoRun /\ prev_run' = NoRun
    /\ UNCHANGED <<allowed_categories, now, tx, sync_pc, run, nruns, dispatched, batch_run,
                   notifVars, fetchVars, updVars, enrichVars, fnVars>>

InitStore ==
    /\ source = [j \in JobUids |->
                    StoreRecord(j, IF j = "j1" THEN LaserWeederCall ELSE ShopRepair,
                                PartNoNetsuite)]
    /\ allowed_categories = ALLOWED_JOB_CATEGORIES
    /\ now = 0 /\ tx = NoTx /\ sync_pc = "idle" /\ run = NoRun /\ nruns = 0
    /\ dispatched = [j \in JobUids |-> 0]
    /\ last_run = NoRun /\ prev_run = NoRun
    /\ batch_run = NoBatchRun
    /\ NotifyIdle /\ FetchIdle /\ UpdatedIdle /\ EnrichIdle /\ FnIdle

NextStore ==
    \/ \E input \in RunInputs, url \in BOOLEAN :
          SyncStart(input, url) /\ UNCHANGED batch_run
    \/ \E ok \in BOOLEAN : SyncJob(ok)
    \/ SyncFinish /\ UNCHANGED batch_run
    \/ \E j \in JobUids, p \in StorePayloads("j1") : SourceEdit(j, p)
    \/ \E j \in JobUids : mark_job_resolved(j)
    \/ \E c \in ALLOWED_JOB_CATEGORIES : RemoveCategory(c)

SpecStore == InitStore /\ [][NextStore]_vars

----------------------------------------------------------------------------
(* streamlit_sync.py: one call of fetch_job_details (SpecDetail)           *)

\* The time.sleep one pass of the loop executes before it goes on: the
\* Retry-After value (5 without the header) after a 429, unless int() raised
\* on the header; 2 ** attempt after a timeout or a 5xx that is retried.
DetailSleep(attempt, resp) ==
    CASE resp = "http_429" -> "retry_after"
      [] resp \in {"timeout", "http_5xx"} /\ attempt < detail_max_retries - 1 -> "backoff"
      [] OTHER -> "none"

\* One pass of `for attempt in range(max_retries)`: one GET and what the
\* loop body does with its outcome.  fn_args holds the loop variable and, as
\* history, the outcome of every GET and the sleep that followed it.
DetailRequest(resp) ==
    /\ fn_args /= NoResult /\ "attempt" \in DOMAIN fn_args
    /\ fn_result = NoResult
    /\ fn_args.attempt < detail_max_retries
    /\ LET a == DetailAttempt(fn_args.attempt, resp) IN
       /\ fn_args' = [fn_args EXCEPT
                         !.attempt = @ + 1,
                         !.responses = Append(@, resp),
                         !.sleeps = Append(@, DetailSleep(fn_args.attempt, resp))]
       /\ fn_result' =
             IF a.kind = "return" THEN [returned |-> <<a.data, a.error>>]
             ELSE IF a.kind = "raise" THEN [raised |-> a.error]
             ELSE IF fn_args.attempt + 1 < detail_max_retries THEN NoResult
             ELSE [returned |-> <<"None", "Max retries exceeded">>]
    /\ UNCHANGED <<notifVars, fetchVars, updVars, enrichVars, syncVars>>

InitDetail ==
    /\ fn_args \in [job_uid : JobUids, attempt : {0}, responses : {<<>>}, sleeps : {<<>>}]
    /\ fn_result = NoResult
    /\ NotifyIdle /\ FetchIdle /\ UpdatedIdle /\ EnrichIdle /\ SyncIdle

NextDetail == \E resp \in DetailResponses : DetailRequest(resp)

SpecDetail == InitDetail /\ [][NextDetail]_vars

----------------------------------------------------------------------------
(* The notifier on its own: C2, C3 (SpecNotify)                            *)

CallsFor(u) == SelectSeq(calls, LAMBDA c : c.job_uid = u)
PostCount(cs) == Cardinality({i \in 1..Len(cs) : cs[i].posted})
AllAccepted(cs) == \A i \in 1..Len(cs) : cs[i].webhook_url /\ cs[i].ok

\* The last call before call k for the same job that reached the webhook
\* (0 when there is none).
LatestPosted(u, k) ==
    LET S == {i \in 1..(k - 1) : calls[i].job_uid = u /\ calls[i].posted} IN
    IF S = {} THEN 0 ELSE CHOOSE i \in S : \A m \in S : m <= i

\* The rows notification_log holds for job u.
LogRows(u) == SelectSeq(db.notification_log, LAMBDA r : r.job_uid = u)

\* C2: two calls for the same job_uid with force = false, against a webhook
\* that accepts every request, post exactly once; the same two calls with
\* force = true post twice.
C2_TwoCallsPostOnce ==
    \A u \in JobUids :
        LET cs == CallsFor(u) IN
        (Len(cs) = 2 /\ AllAccepted(cs)) =>
            /\ (~cs[1].force /\ ~cs[2].force) => PostCount(cs) = 1
            /\ (cs[1].force /\ cs[2].force) => PostCount(cs) = 2

\* Two non-forced accepted calls for one job have been made; the first
\* posted, the second was skipped.
C2_Witness ==
    \E u \in JobUids :
        LET cs == CallsFor(u) IN
        /\ Len(cs) = 2 /\ AllAccepted(cs)
        /\ ~cs[1].force /\ ~cs[2].force
        /\ cs[1].posted /\ ~cs[2].posted

----------------------------------------------------------------------------
(* The list fetch: C8 (SpecFetch)                                          *)

\* C8: fetch_jobs_from_api returns the records of every page 1..total_pages
\* of the server, in page order, or raises; it never returns normally with
\* only part of the server's job list.
C8_AllPagesOrRaise ==
    fetch_pc = "returned" => jobs = ServerJobs

----------------------------------------------------------------------------
(* The differential fetch: C10 (SpecUpdated)                               *)

\* The timestamp the claim compares: updated_at, created_at when updated_at
\* is empty.
ChangeStamp(job) ==
    IF job.updated_at = None \/ job.updated_at = <<>> THEN job.created_at
    ELSE job.updated_at

ComparesGreater(stamp, cutoff) == stamp /= None /\ StrLess(cutoff, stamp)

\* C10: with no last sync time (MAX(synced_at) null or unreadable) every
\* fetched job is returned; otherwise the result is, in list order, exactly
\* the fetched jobs whose updated_at (created_at when updated_at is empty)
\* compares greater than the cutoff.
C10_UpdatedSinceCutoff ==
    upd_pc = "returned" =>
        IF upd_last_sync \in {None, DbError}
        THEN upd_result = upd_all_jobs
        ELSE upd_result = SelectSeq(upd_all_jobs,
                 LAMBDA job : ComparesGreater(ChangeStamp(job), upd_last_sync))

\* A call with a known cutoff has returned: it kept a job on its created_at
\* (updated_at empty) and dropped another one.
C10_Witness ==
    /\ upd_pc = "returned"
    /\ upd_last_sync \notin {None, DbError}
    /\ Len(upd_all_jobs) = 2
    /\ Len(upd_result) = 1
    /\ ~Truthy(upd_result[1].updated_at)

----------------------------------------------------------------------------
(* Enrichment and the detail fetch: C6, C7, C9 (SpecEnrich)                *)

\* The detail fetch of position i produced the full record.
FetchSucceeded(i) ==
    futures[i].exception = "None" /\ futures[i].error = "None"

\* C6: whatever the completion order of the detail fetches, position i of the
\* returned list holds the record of the job at input position i: its full
\* detail, or the fallback when its fetch failed.
C6_OrderPreserved ==
    e_pc = "returned" =>
        /\ Len(enriched_jobs) = Len(e_jobs)
        /\ \A i \in 1..Len(e_jobs) :
              /\ enriched_jobs[i].job_uid = e_jobs[i].job_uid
              /\ FetchSucceeded(i) => enriched_jobs[i].source = "detail"
              /\ ~FetchSucceeded(i) => enriched_jobs[i].source = "list"

\* The call has returned after handling a later position's future before an
\* earlier one.
C6_Witness ==
    /\ e_pc = "returned"
    /\ out_of_order
    /\ Len(e_jobs) >= 2

\* The errors a detail fetch can end in.
FetchErrors ==
    {"Timeout after 3 retries", "Max retries exceeded", "HTTP error",
     "API returned non-success", "Empty response", "Request failed",
     "Unexpected error"}

FetchFailed(i) ==
    futures[i].exception /= "None" \/ futures[i].error \in FetchErrors

\* C7: for every input job whose detail fetch ended in an error, the output
\* holds at that job's position the original list record with assets = [];
\* no input job is dropped.
C7_FailedKeptWithEmptyAssets ==
    e_pc = "returned" =>
        /\ Len(enriched_jobs) = Len(e_jobs)
        /\ \A i \in 1..Len(e_jobs) :
              /\ enriched_jobs[i] /= NoJob
              /\ FetchFailed(i) =>
                    enriched_jobs[i] = [job_uid |-> e_jobs[i].job_uid,
                                        source |-> "list", assets |-> "empty"]

\* The call has returned; one fetch timed out on all its attempts and another
\* one died of an exception in the worker.
C7_Witness ==
    /\ e_pc = "returned"
    /\ \E i, k \in 1..Len(e_jobs) :
          /\ futures[i].error = "Timeout after 3 retries"
          /\ futures[i].attempt = detail_max_retries
          /\ futures[k].exception /= "None"

\* C9: fetch_job_details never raises; it returns a (data, error) pair whose
\* error is a non-null string whenever no successful response was obtained.
C9_DetailNeverRaises ==
    \A i \in 1..Len(futures) :
        futures[i].st = "done" =>
            /\ futures[i].exception \in {"None", "WorkerError"}
            /\ (futures[i].exception = "None" /\ ~futures[i].got_success)
                  => futures[i].error \in FetchErrors

\* A detail fetch has ended on a 429 whose Retry-After is not an integer, and
\* another one on exhausted rate limiting.
C9_Witness ==
    \E i, k \in 1..Len(futures) :
        /\ futures[i].st = "done" /\ futures[i].error = "Unexpected error"
        /\ futures[k].st = "done" /\ futures[k].error = "Max retries exceeded"

----------------------------------------------------------------------------
(* Sync runs against the store: C1, C4, C5 (Spec)                          *)

\* C1 (as stated): over sync runs, none of which forces a notification, the
\* webhook is dispatched successfully at most once for a job_uid; a later run
\* that recomputes the flag inside the 48-hour window skips the dispatch.
\* The notifier works on connections of its own while the run's connection
\* holds its uncommitted writes.
C1_AtMostOneDispatch ==
    \A j \in JobUids : dispatched[j] <= 1

RECURSIVE RowsOf(_, _)
RowsOf(table, S) ==
    IF S = {} THEN 0
    ELSE LET j == CHOOSE x \in S : TRUE IN Len(table[j]) + RowsOf(table, S \ {j})

\* SELECT COUNT(*) of every table of the store.
RowCounts(d) ==
    [jobs |-> Cardinality({j \in JobUids : d.jobs[j] /= NoRow}),
     job_line_items |-> RowsOf(d.job_line_items, JobUids),
     job_checklist_parts |-> RowsOf(d.job_checklist_parts, JobUids),
     job_custom_fields |-> RowsOf(d.job_custom_fields, JobUids),
     validation_flags |-> RowsOf(d.validation_flags, JobUids),
     organizations |-> Cardinality(d.organizations),
     sync_log |-> Len(d.sync_log),
     notification_log |-> Len(d.notification_log)]

\* C4 (as stated): a sync of N job records followed at once by a second sync
\* of the same records leaves the row count of every table, sync_log and
\* notification_log included, as it was after the first.
C4_AllCountsUnchanged ==
    prev_run /= NoRun => RowCounts(last_run.db) = RowCounts(prev_run.db)

\* C4 (amended): after the second sync every table but sync_log has the row
\* count it had after the first, and sync_log has one row more.
C4_CountsUnchangedButSyncLog ==
    prev_run /= NoRun =>
        LET first == RowCounts(prev_run.db)
            second == RowCounts(last_run.db) IN
        /\ second = [first EXCEPT !.sync_log = second.sync_log]
        /\ second.sync_log = first.sync_log + 1

\* Two syncs in a row of the same two job records, both stored, with line
\* items, checklist parts, a flag and an organization in the store.
C4_Witness ==
    /\ prev_run /= NoRun
    /\ Len(last_run.jobs) = 2
    /\ LET n == RowCounts(last_run.db) IN
          /\ n.jobs = 2 /\ n.job_line_items >= 1 /\ n.job_checklist_parts >= 1
          /\ n.validation_flags >= 1 /\ n.organizations >= 1
          /\ last_run.db.notifTable

\* C5: when a sync run completes, every row of jobs has a category of the
\* current allowlist, and every job the run found stored under a category
\* that is no longer allowed is absent from jobs, in the input or not.
C5_StoredCategoriesAllowed ==
    [][(sync_pc = "run" /\ sync_pc' = "idle") =>
          /\ \A j \in JobUids :
                db'.jobs[j] /= NoRow => db'.jobs[j].job_category \in allowed_categories'
          /\ \A j \in run.deleted : db'.jobs[j] = NoRow]_vars

\* A run has completed that found a job stored under a removed category; the
\* job was not in the run's input and is gone, another job is still stored.
C5_Witness ==
    /\ sync_pc = "idle" /\ last_run /= NoRun
    /\ \E j \in last_run.deleted :
          /\ \A k \in 1..Len(last_run.jobs) : last_run.jobs[k].job_uid /= j
          /\ db.jobs[j] = NoRow
    /\ \E j \in JobUids : db.jobs[j] /= NoRow

----------------------------------------------------------------------------
(* sync_jobs_in_batches: C11 (SpecBatches)                                 *)

\* Batch number m of the coordinator's input, as enriched.
EnrichedBatchNo(m) ==
    EnrichedBatch(Batch([batch_run EXCEPT !.batch_start = (m - 1) * batch_run.batch_size]))

WellFormedBatch(m) ==
    \A k \in 1..Len(EnrichedBatchNo(m)) : EnrichedBatchNo(m)[k] /= NoneStr

\* C11: when persisting batch k raised, the run still returns its result
\* object and every batch after k was persisted: a later batch whose entries
\* are all well-formed did not raise.
C11_LaterBatchesPersisted ==
    (batch_run /= NoBatchRun /\ batch_run.phase = "returned") =>
        \A k \in 1..Len(batch_run.outcomes), m \in 1..Len(batch_run.outcomes) :
            (k < m /\ batch_run.outcomes[k] = "raised" /\ WellFormedBatch(m))
                => batch_run.outcomes[m] = "ok"

----------------------------------------------------------------------------
(* sync_log: C12 (SpecRuns)                                                *)

SyncLogStatuses == {db.sync_log[k].status : k \in 1..Len(db.sync_log)}

\* C12: once the run that created it has ended, a sync_log entry has status
\* completed: while no run is in progress no entry is in_progress.
C12_NoEntryLeftInProgress ==
    sync_pc /= "run" => SyncLogStatuses \subseteq {"completed"}

----------------------------------------------------------------------------
(* The notification step of a sync run: C13 (SpecRuns)                     *)

\* The flag types validate_job gives for a record, as the loop calls it.
FlagTypesOf(job) ==
    LET flags == validate_job(extract_line_items(job), extract_checklist_parts(job),
                              extract_netsuite_id(job),
                              IF job.job_category.shape = "dict"
                              THEN job.job_category.category_name ELSE "")
    IN {flags[k].flag_type : k \in 1..Len(flags)}

\* The job of the iteration at hand gets a missing_netsuite_id flag in this
\* run, a webhook URL is configured, and the job's completion timestamp
\* parses and is at most 48 hours back.
ShouldAsk ==
    LET job == run.jobs[run.i] IN
    /\ job /= NoneEntry
    /\ get_job_category(job) \in run.allowed_categories
    /\ ~HasNoneField(job)
    /\ "missing_netsuite_id" \in FlagTypesOf(job)
    /\ run.webhook_url
    /\ job.completed_at.kind = "iso"
    /\ now - job.completed_at.hour <= recent_hours

\* C13: an iteration of the sync loop asks the notifier to send exactly when
\* the job got a missing_netsuite_id flag in this run, a webhook URL is
\* configured and the completion timestamp parses and is at most 48 hours
\* old; no timestamp, an unparseable or an older one, or a flag of type
\* parts_replaced_no_line_items never asks it.
C13_AskedExactlyWhenRecentAndMissing ==
    [][(sync_pc = "run" /\ sync_pc' = "run" /\ run'.i = run.i + 1)
          => ((run.i \in run'.asked) <=> ShouldAsk)]_vars

\* A run has asked the notifier for one job and has not for another.
C13_Witness ==
    /\ sync_pc = "run"
    /\ run.asked /= {}
    /\ \E k \in 1..(run.i - 1) : k \notin run.asked

----------------------------------------------------------------------------
(* Resolved flags across sync runs: C14 (Spec)                             *)

\* The flag types of a job's rows in validation_flags, all or the resolved ones.
StoredFlagTypes(d, j) ==
    {d.validation_flags[j][k].flag_type : k \in 1..Len(d.validation_flags[j])}
ResolvedFlagTypes(d, j) ==
    {d.validation_flags[j][k].flag_type :
        k \in {m \in 1..Len(d.validation_flags[j]) : d.validation_flags[j][m].is_resolved}}

\* C14: a sync run never changes the resolution state: a flag that was
\* resolved when the run started, and whose type the job still has when the
\* run completes, is still resolved then.
C14_ResolvedSurvivesSync ==
    [][(sync_pc = "run" /\ sync_pc' = "idle") =>
          \A j \in JobUids :
              (ResolvedFlagTypes(db, j) \cap StoredFlagTypes(db', j))
                  \subseteq ResolvedFlagTypes(db', j)]_vars

----------------------------------------------------------------------------
(* validate_job: C15, C16, C17 (SpecValidate)                              *)

\* The flags of a type in the list validate_job returned.
FlagsOfType(flag_type) ==
    SelectSeq(fn_result.returned, LAMBDA flag : flag.flag_type = flag_type)

\* The positions of the line items none of whose name, code, serial and type
\* contains a consumable term.
NonConsumablePositions ==
    {k \in 1..Len(fn_args.line_items) :
        \A text \in {fn_args.line_items[k].item_name, fn_args.line_items[k].item_code,
                     fn_args.line_items[k].item_serial,
                     fn_args.line_items[k].line_item_type} :
            ~ContainsConsumableTerm(text)}

\* Whether names lists the item names at the positions of S, in their order.
RECURSIVE NamesAt(_, _)
NamesAt(S, k) ==
    IF k > Len(fn_args.line_items) THEN <<>>
    ELSE (IF k \in S THEN <<fn_args.line_items[k].item_name>> ELSE <<>>)
         \o NamesAt(S, k + 1)

\* C15: validate_job emits a missing_netsuite_id flag exactly when the
\* category has no skip term, there are line items, there is no NetSuite id
\* and at least one item is no consumable; the flag's details list the names
\* of exactly the non-consumable items and count the consumables left out.
C15_MissingNetsuiteExactly ==
    fn_result /= NoResult =>
        LET flagged == FlagsOfType("missing_netsuite_id")
            expected == /\ ~ContainsSkipTerm(fn_args.job_category)
                        /\ fn_args.line_items /= <<>>
                        /\ fn_args.netsuite_id \in {NoneStr, ""}
                        /\ NonConsumablePositions /= {}
        IN /\ Len(flagged) = (IF expected THEN 1 ELSE 0)
           /\ expected =>
                 /\ flagged[1].details.line_items = NamesAt(NonConsumablePositions, 1)
                 /\ flagged[1].details.consumables_excluded =
                        Len(fn_args.line_items) - Cardinality(NonConsumablePositions)

\* validate_job has flagged a job with two line items, one of them a
\* consumable.
C15_Witness ==
    /\ fn_result /= NoResult
    /\ Len(FlagsOfType("missing_netsuite_id")) = 1
    /\ Cardinality(NonConsumablePositions) = 1
    /\ Len(fn_args.line_items) = 2

\* C16: validate_job emits a parts_replaced_no_line_items flag exactly when
\* the category has no skip term, there are checklist parts and there are no
\* line items; the flag's details list the serial of every part, in order.
C16_PartsReplacedExactly ==
    fn_result /= NoResult =>
        LET flagged == FlagsOfType("parts_replaced_no_line_items")
            expected == /\ ~ContainsSkipTerm(fn_args.job_category)
                        /\ fn_args.checklist_parts /= <<>>
                        /\ fn_args.line_items = <<>>
        IN /\ Len(flagged) = (IF expected THEN 1 ELSE 0)
           /\ expected =>
                 /\ Len(flagged[1].details.parts_replaced) = Len(fn_args.checklist_parts)
                 /\ \A k \in 1..Len(fn_args.checklist_parts) :
                       flagged[1].details.parts_replaced[k] =
                           fn_args.checklist_parts[k].part_serial

\* validate_job has flagged a job with two different checklist parts and no
\* line items.
C16_Witness ==
    /\ fn_result /= NoResult
    /\ Len(FlagsOfType("parts_replaced_no_line_items")) = 1
    /\ Len(fn_args.checklist_parts) = 2
    /\ fn_args.checklist_parts[1] /= fn_args.checklist_parts[2]

\* C17 as stated: some arguments make validate_job emit both a
\* missing_netsuite_id flag and a parts_replaced_no_line_items flag, and
\* whenever it emits both the missing_netsuite_id flag comes first.
C17_BothEmittedInOrder ==
    /\ \E a \in ValidateArgs :
          LET flags == validate_job(a.line_items, a.checklist_parts,
                                    a.netsuite_id, a.job_category)
          IN {"missing_netsuite_id", "parts_replaced_no_line_items"}
                 \subseteq {flags[k].flag_type : k \in 1..Len(flags)}
    /\ fn_result /= NoResult =>
          (Len(fn_result.returned) = 2 =>
              /\ fn_result.returned[1].flag_type = "missing_netsuite_id"
              /\ fn_result.returned[2].flag_type = "parts_replaced_no_line_items")

\* C17, amended: validate_job never emits both flags for the same job: it
\* returns at most one flag, the missing_netsuite_id flag only when there
\* are line items and the parts_replaced_no_line_items flag only when there
\* are none.
C17_NeverBothFlags ==
    fn_result /= NoResult =>
        /\ Len(fn_result.returned) <= 1
        /\ Len(FlagsOfType("missing_netsuite_id")) = 1 => fn_args.line_items /= <<>>
        /\ Len(FlagsOfType("parts_replaced_no_line_items")) = 1 => fn_args.line_items = <<>>

\* validate_job has returned one flag only for a job that has checklist
\* parts as well as a part among its line items and no NetSuite id.
C17_Witness ==
    /\ fn_result /= NoResult
    /\ fn_args.checklist_parts /= <<>>
    /\ NonConsumablePositions /= {}
    /\ fn_args.netsuite_id = NoneStr
    /\ Len(fn_result.returned) = 1

----------------------------------------------------------------------------
(* normalize_serial: C18 (SpecSerial)                                      *)

\* C18: normalize_serial is idempotent: normalizing what it returned returns
\* the same serial again.
C18_NormalizeIdempotent ==
    fn_result /= NoResult => normalize_serial(fn_result.returned) = fn_result.returned

\* normalize_serial has returned a serial that differs from its input, which
\* had dashes and lower-case letters and at least nine characters after the
\* prefix.
C18_Witness ==
    /\ fn_result /= NoResult
    /\ fn_result.returned /= fn_args.serial
    /\ \E k \in 1..Len(fn_args.serial) : fn_args.serial[k] = "-"
    /\ \E k \in 1..Len(fn_args.serial) : fn_args.serial[k] = "w"
    /\ StartsWith(fn_result.returned, <<"W", "M", "-">>)
    /\ Len(fn_result.returned) >= 13

----------------------------------------------------------------------------
(* Records that change at the API: C19, C20 (SpecDiff)                     *)

\* C19: when a full sync completes, a job of its input whose category at
\* the API is outside the allowlist is not in the jobs table, stored before
\* or not.
C19_DisallowedJobGone ==
    [][(sync_pc = "run" /\ sync_pc' = "idle"
          /\ {run.jobs[k].job_uid : k \in 1..Len(run.jobs)} = JobUids) =>
          \A k \in 1..Len(run.jobs) :
              get_job_category(run.jobs[k]) \notin run.allowed_categories
                  => db'.jobs[run.jobs[k].job_uid] = NoRow]_vars

\* The jobs a differential sync has to bring in: an allowed category at the
\* API, and no row in the store or a row of an older version of the record.
ChangedSinceStored ==
    {j \in JobUids :
        /\ get_job_category(source[j]) \in allowed_categories
        /\ \/ db.jobs[j] = NoRow
           \/ source[j].updated_at > db.jobs[j].updated_at}

\* C20: whenever fetch_updated_jobs_only returns between runs, every job of
\* an allowed category that changed at the API after the version in the
\* store, or that has no row in the store, is in the list it returns.
C20_NoUpdateLost ==
    sync_pc = "idle" => ChangedSinceStored \subseteq fetch_updated_jobs_only(db, source)

----------------------------------------------------------------------------
(* One job's rows across a run: C21 (SpecStore)                            *)

\* Everything the store holds for a job_uid.
JobRows(d, job_uid) ==
    [jobs |-> d.jobs[job_uid],
     job_line_items |-> d.job_line_items[job_uid],
     job_checklist_parts |-> d.job_checklist_parts[job_uid],
     job_custom_fields |-> d.job_custom_fields[job_uid],
     validation_flags |-> d.validation_flags[job_uid]]

\* What the store holds for a job once the record has been synced in full.
SyncedRows(job, clock) ==
    LET flags == validate_job(extract_line_items(job), extract_checklist_parts(job),
                              extract_netsuite_id(job),
                              IF job.job_category.shape = "dict"
                              THEN job.job_category.category_name ELSE "")
    IN [jobs |-> [job_category |-> get_job_category(job),
                  organization_uid |-> job.organization_uid,
                  updated_at |-> job.updated_at,
                  completed_at |-> get_completion_date(job),
                  has_line_items |-> job.products /= <<>>,
                  has_checklist_parts |-> extract_checklist_parts(job) /= <<>>,
                  has_netsuite_id |-> extract_netsuite_id(job) /= NoneStr,
                  netsuite_sales_order_id |-> extract_netsuite_id(job),
                  synced_at |-> clock],
        job_line_items |-> extract_line_items(job),
        job_checklist_parts |-> extract_checklist_parts(job),
        job_custom_fields |-> extract_custom_fields(job),
        validation_flags |-> [k \in 1..Len(flags) |->
                                 [flag_type |-> flags[k].flag_type, is_resolved |-> FALSE]]]

\* C21: when a run completes, every job of its input has either the rows of
\* the record just synced (jobs row, child rows and flags), or exactly the
\* rows it had when the loop started; a half-written job is never committed.
\* (The runs commit at the end only: the committed store is, until then, the
\* store as the loop found it.)
C21_JobAllOrNothing ==
    [][(sync_pc = "run" /\ sync_pc' = "idle") =>
          \A k \in 1..Len(run.jobs) :
              LET job == run.jobs[k] IN
              \/ JobRows(db', job.job_uid) = JobRows(db, job.job_uid)
              \/ /\ ~HasNoneField(job)
                 /\ JobRows(db', job.job_uid) = SyncedRows(job, now)]_vars

----------------------------------------------------------------------------
(* Errors inside the loop: C22 (SpecRuns)                                  *)

\* The entries a run has dealt with: processed, skipped, or failed.
EntriesDone(r) == r.jobs_processed + r.jobs_skipped + r.errors

\* C22: an error at one entry of the jobs list never leaves
\* sync_jobs_to_database: whatever the entry at hand is, the loop deals with
\* it (processed, skipped, or added to the errors) and goes on to the next
\* entry with the run still under way.
C22_ErrorsStayInTheRun ==
    [][(sync_pc = "run" /\ run.i <= Len(run.jobs)) =>
          /\ sync_pc' = "run"
          /\ run'.i = run.i + 1
          /\ EntriesDone(run') = EntriesDone(run) + 1]_vars

----------------------------------------------------------------------------
(* Child rows after a sync: C23, C24 (SpecStore)                           *)

\* The step is an iteration of the loop that processed its job without error.
ProcessedJob ==
    /\ sync_pc = "run" /\ sync_pc' = "run"
    /\ run'.jobs_processed = run.jobs_processed + 1

\* The step is the end of a run: the final commit.
RunCompletes == sync_pc = "run" /\ sync_pc' = "idle"

\* C23: once the loop has processed a job without error, the job's rows in
\* job_line_items, job_checklist_parts and job_custom_fields are exactly the
\* rows extracted from the record just synced: nothing an earlier sync wrote
\* for the job_uid remains, also when the record has no line items,
\* checklist parts or custom fields; the final commit stores these rows.
C23_ChildRowsReplaced ==
    [][/\ ProcessedJob =>
             LET job == run.jobs[run.i] IN
             /\ tx'.job_line_items[job.job_uid] = extract_line_items(job)
             /\ tx'.job_checklist_parts[job.job_uid] = extract_checklist_parts(job)
             /\ tx'.job_custom_fields[job.job_uid] = extract_custom_fields(job)
       /\ RunCompletes =>
             /\ db'.job_line_items = tx.job_line_items
             /\ db'.job_checklist_parts = tx.job_checklist_parts
             /\ db'.job_custom_fields = tx.job_custom_fields]_vars

\* Two runs have completed.  The first processed j1 alone and flagged it (the
\* record had a line item or a checklist part then); the second processed j1
\* from a record without products, checklist answers and custom fields, and
\* the store holds no child row of j1.
C23_Witness ==
    /\ sync_pc = "idle" /\ last_run /= NoRun
    /\ Len(db.sync_log) = 2
    /\ db.sync_log[1].jobs_processed = 1 /\ db.sync_log[1].flags_created = 1
    /\ db.sync_log[2].jobs_processed = 1
    /\ last_run.jobs = <<StoreRecord("j1", LaserWeederCall, BareJob)>>
    /\ db.jobs["j1"] /= NoRow
    /\ db.job_line_items["j1"] = <<>>
    /\ db.job_checklist_parts["j1"] = <<>>
    /\ db.job_custom_fields["j1"] = <<>>

\* C24: once the loop has processed a job without error, the job's rows in
\* validation_flags are exactly the flags validate_job returned for the
\* record just synced, every one with is_resolved = 0: the rows the job had
\* before, resolved or not, are gone, and the final commit stores the new ones.
C24_FlagsReplacedUnresolved ==
    [][/\ ProcessedJob =>
             LET job == run.jobs[run.i]
                 flags == validate_job(extract_line_items(job),
                                       extract_checklist_parts(job),
                                       extract_netsuite_id(job),
                                       IF job.job_category.shape = "dict"
                                       THEN job.job_category.category_name ELSE "")
                 rows == tx'.validation_flags[job.job_uid]
             IN /\ Len(rows) = Len(flags)
                /\ \A k \in 1..Len(rows) :
                      rows[k].flag_type = flags[k].flag_type /\ ~rows[k].is_resolved
       /\ RunCompletes => db'.validation_flags = tx.validation_flags]_vars

\* A run is under way that has resynced j1: in the committed store j1's
\* flag is resolved (the operator marked it after an earlier run), in the
\* run's view the flag of the same type is there again, unresolved.
C24_Witness ==
    /\ sync_pc = "run" /\ run.jobs_processed >= 1
    /\ run.jobs[1].job_uid = "j1" /\ run.i > 1
    /\ Len(db.validation_flags["j1"]) = 1
    /\ db.validation_flags["j1"][1].is_resolved
    /\ Len(tx.validation_flags["j1"]) = 1
    /\ tx.validation_flags["j1"][1].flag_type = db.validation_flags["j1"][1].flag_type
    /\ ~tx.validation_flags["j1"][1].is_resolved

----------------------------------------------------------------------------
(* Retries of the list fetch: C25 (SpecFetchFair)                          *)

\* C25: the list fetch has no unbounded retry.  At most max_retries (3)
\* attempts in a row time out, and the third one raises; a page that is
\* served leaves the count at zero for the next page; the call issues at
\* most max_retries requests per page the server reports, and it ends:
\* it returns or raises.
C25_NoUnboundedRetry ==
    /\ [](retry_count <= max_retries)
    /\ [](retry_count = max_retries => fetch_pc = "raised")
    /\ [][page' = page + 1 => retry_count' = 0]_vars
    /\ [](fetch_requests <= max_retries * (IF ServerTotalPages = 0 THEN 1
                                           ELSE ServerTotalPages))
    /\ <>(fetch_pc \in {"returned", "raised"})

\* The call has returned the jobs of two pages after two timeouts on each of
\* them: four timeouts in all, never three in a row.
C25_Witness ==
    /\ fetch_pc = "returned"
    /\ page = 2
    /\ fetch_requests = 2 * max_retries
    /\ jobs = ServerJobs

----------------------------------------------------------------------------
(* Requests of one detail fetch: C26 (SpecDetail)                          *)

\* The call has ended right after request number k.
EndedAfter(k) == fn_result /= NoResult /\ Len(fn_args.responses) = k

\* C26: one call of fetch_job_details issues at most max_retries (3)
\* requests, whatever they end in; below that cap a timeout or a 5xx is
\* followed by another attempt, and so is a 429, after a wait of the
\* Retry-After value; a 4xx other than 429, or an answer whose type is not
\* success, ends the call with that request.
C26_AtMostThreeRequests ==
    /\ Len(fn_args.responses) <= detail_max_retries
    /\ \A k \in 1..Len(fn_args.responses) :
          LET resp == fn_args.responses[k] IN
          /\ (resp \in {"timeout", "http_5xx"} /\ k < detail_max_retries)
                => ~EndedAfter(k)
          /\ (resp \in {"http_429", "http_429_date"} /\ k < detail_max_retries)
                => (~EndedAfter(k) /\ fn_args.sleeps[k] = "retry_after")
          /\ resp \in {"http_4xx", "non_success"} => EndedAfter(k)

----------------------------------------------------------------------------
(* One batch, one writer at a time: C27 (SpecBatches)                      *)

\* The notifier, called for job_uid while the run's transaction is open,
\* gets by without a write: the tracking table exists and holds a successful
\* notification of the job.
NotifierOnlyReads(job_uid) ==
    db.notifTable /\ was_notification_sent(db, job_uid)

\* C27: batches are handled one after another: a batch is enriched only when
\* no persistence is under way; and never are two connections writing to the
\* database at once: sync_jobs_to_database is entered only when no other
\* connection has a write transaction open, and the notifier, called inside
\* a run, does not write on its connection while the run's transaction is open.
C27_BatchesSequentialOneWriter ==
    /\ [][(batch_run /= NoBatchRun /\ batch_run'.phase = "enriched"
             /\ batch_run.phase /= "enriched") => sync_pc /= "run"]_vars
    /\ [][nruns' = nruns + 1 => tx = NoTx]_vars
    /\ [][(sync_pc = "run" /\ sync_pc' = "run" /\ run'.i = run.i + 1
             /\ run.i \in run'.asked)
          => NotifierOnlyReads(run.jobs[run.i].job_uid)]_vars

----------------------------------------------------------------------------
(* Rows without a job: C28 (SpecStore)                                     *)

\* The job_uids the child tables and validation_flags hold rows for.
ReferencedJobs(d) ==
    {j \in JobUids : \/ d.job_line_items[j] /= <<>>
                     \/ d.job_checklist_parts[j] /= <<>>
                     \/ d.job_custom_fields[j] /= <<>>
                     \/ d.validation_flags[j] /= <<>>}

\* C28: after any sequence of sync runs, allowlist changes and mark-resolved
\* actions, every row of job_line_items, job_checklist_parts,
\* job_custom_fields and validation_flags in the store belongs to a job_uid
\* that has a row in jobs.
C28_NoOrphanRows ==
    \A j \in ReferencedJobs(db) : db.jobs[j] /= NoRow

----------------------------------------------------------------------------
(* No empty slot after enrichment: C29 (SpecEnrichAny)                     *)

\* C29: enrich_jobs_with_assets returns a list as long as its input in which
\* every position holds a job record, never an empty slot, also when entries
\* of the input share a job_uid or lack one.
C29_NoEmptySlot ==
    e_pc = "returned" =>
        /\ Len(enriched_jobs) = Len(e_jobs)
        /\ \A i \in 1..Len(enriched_jobs) : enriched_jobs[i] /= NoJob

----------------------------------------------------------------------------
(* Deduplication across forced calls: C30 (SpecNotify)                     *)

\* Call k was preceded by a call for the same job that reached the webhook
\* and was accepted: the notification has been dispatched successfully.
DispatchedBefore(k) ==
    \E i \in 1..(k - 1) :
        calls[i].job_uid = calls[k].job_uid /\ calls[i].posted /\ calls[i].ok

\* C30: once a notification of a job has been dispatched successfully, no
\* later non-forced call posts to the webhook for that job, whatever forced
\* calls were made in between; and notification_log never holds two rows of
\* the same (job_uid, notification_type, channel).
C30_NoRepostAfterSuccess ==
    /\ \A k \in 1..Len(calls) :
          (~calls[k].force /\ DispatchedBefore(k)) => ~calls[k].posted
    /\ \A a, b \in 1..Len(db.notification_log) :
          SameNotificationKey(db.notification_log[a], db.notification_log[b]) => a = b

============================================================================
